---- MODULE Spec2Model ----
(***************************************************************************)
(* Cross-stitch pattern pipeline: the median-cut colour quantizer, the DMC *)
(* palette matcher with its module-level cache, and the two grid mappers.  *)
(* Every component has its own specification over its own variables; the   *)
(* variables of the other components stay at their initial values.         *)
(***************************************************************************)
EXTENDS Integers, Sequences, FiniteSets, TLC

VARIABLES
    qimage,      \* quantizer: the ImageData pixels handed to quantizeColors (RGBA rows, alpha dropped)
    qk,          \* quantizer: the argument k
    qrate,       \* quantizer: the argument sampleRate
    qpc,         \* quantizer: position of each run of quantizeColors
    qboxes,      \* quantizer: the local array `boxes` of each run
    qn,          \* quantizer: weightedPixels.length of each run
    qresult,     \* quantizer: the colours each run resolved with
    qerror,      \* quantizer: the message each run rejected with ("" when none)
    catalog,     \* matcher: the array getAllDMCColors() returns
    matchCache,  \* matcher: the module-level Map matchCache
    mcall,       \* matcher: the last call of matchColorToDMC and its outcome
    gimage,      \* grid: the source ImageData [width, height, data]
    ggw,         \* grid: the argument gridWidth
    ggh,         \* grid: the argument gridHeight
    gpalette,    \* grid: the argument dmcPalette
    gmobile,     \* grid: window.innerWidth < 768
    gpc,         \* grid: position of the mapImageToGridChunked call
    ggrid,       \* grid: the local array `grid` of mapImageToGridChunked
    gstartY,     \* grid: the chunk loop's startY
    gyields,     \* grid: awaits of yieldToBrowser still to come after the current chunk
    glookup,     \* grid: the per-call Map colorLookup
    gerror,      \* grid: the error mapImageToGridChunked rejected with ("" when none)
    gsync,       \* grid: outcome of the synchronous mapImageToGrid on the same arguments
    spalette,    \* symbols: the argument palette of assignSymbolsToPalette
    spc,         \* symbols: "idle", "assigned" (assignSymbolsToPalette returned), "checked"
    sresult,     \* symbols: the array assignSymbolsToPalette returned
    sunique,     \* symbols: what hasUniqueSymbols returned for that array
    rimage,      \* recolour: the argument imageData of applyQuantizedColors (RGBA pixels)
    rcolors,     \* recolour: the argument quantizedColors
    rmobile,     \* recolour: window.innerWidth < 768
    rpc,         \* recolour: "idle", "yield" (awaiting yieldToBrowser), "done", "failed"
    rdata,       \* recolour: newImageData.data
    rshares,     \* recolour: whether newImageData.data is the buffer of imageData.data
    ri,          \* recolour: the chunk loop's i
    ryields,     \* recolour: awaits of yieldToBrowser still to come after the current chunk
    rcache,      \* recolour: the per-call Map colorCache
    store,       \* pattern store: the state object of usePatternStore
    prun,        \* pattern store: position and local constants of each call of generatePattern
    pqueue,      \* pattern store: the calls awaiting yieldToBrowser, in the order the timers fire
    pload,       \* pattern store: the outcome the loadImage call in flight will have
    pmobile,     \* pattern store: window.innerWidth < 768
    pcalls,      \* pattern store: calls of loadImage, updateSettings, removeColor, replaceColor, reset so far
    csettings,   \* settings controls: the settings of usePatternStore
    cinputs,     \* settings controls: gridWidthInput and gridHeightInput of Sidebar
    csnapshot,   \* settings controls: the settings the last call of generatePattern read
    cprocessing, \* settings controls: isProcessing of usePatternStore
    cedits,      \* settings controls: change and blur events so far
    jprojects,   \* project store: projects
    jcurrent     \* project store: currentProjectId

qvars == <<qimage, qk, qrate, qpc, qboxes, qn, qresult, qerror>>
mvars == <<catalog, matchCache, mcall>>
gvars == <<gimage, ggw, ggh, gpalette, gmobile, gpc, ggrid, gstartY, gyields, glookup, gerror, gsync>>
svars == <<spalette, spc, sresult, sunique>>
rvars == <<rimage, rcolors, rmobile, rpc, rdata, rshares, ri, ryields, rcache>>
pvars == <<store, prun, pqueue, pload, pmobile, pcalls>>
cvars == <<csettings, cinputs, csnapshot, cprocessing, cedits>>
jvars == <<jprojects, jcurrent>>
vars == <<qvars, mvars, gvars, svars, rvars, pvars, cvars, jvars>>

(***************************************************************************)
(* Bounds of the model.                                                    *)
(***************************************************************************)
MaxPixels == 4      \* longest enumerated quantizer input
MaxK == 4           \* largest enumerated small k
WideLen == 12       \* length of the one input with enough distinct colours to reach a yield

(***************************************************************************)
(* Colours and arithmetic helpers.                                         *)
(***************************************************************************)
RGB(r, g, b) == [r |-> r, g |-> g, b |-> b]

Min2(a, b) == IF a < b THEN a ELSE b
Max2(a, b) == IF a > b THEN a ELSE b

\* Math.round(total / count) for total >= 0, count > 0: halves round up.
RoundDiv(total, count) == (2 * total + count) \div (2 * count)

\* Math.ceil(a / b) for a >= 0, b > 0.
CeilDiv(a, b) == (a + b - 1) \div b

(***************************************************************************)
(* Colour quantizer (colorQuantization.ts).                                *)
(***************************************************************************)
KLimit == 255       \* quantizeColors rejects k > 255
YieldPeriod == 10   \* the split loop yields when boxes.length % 10 = 0

\* extractPixels: every sampleRate-th pixel, starting with the first.
extractPixels(data, sampleRate) ==
    [j \in 1..CeilDiv(Len(data), sampleRate) |-> data[(j - 1) * sampleRate + 1]]

\* Values of the Map keyed by colour, in insertion (first occurrence) order.
RECURSIVE UniquePixels(_)
UniquePixels(pixels) ==
    IF pixels = <<>> THEN <<>>
    ELSE LET rest == UniquePixels(SubSeq(pixels, 1, Len(pixels) - 1))
             p == pixels[Len(pixels)]
         IN IF \E i \in 1..Len(rest) : rest[i] = p THEN rest ELSE Append(rest, p)

\* Early return of quantizeColorsMedianCut when k >= pixels.length, without deduplication.
EarlyReturnNoDedupe(pixels) == pixels

\* Early return of quantizeColorsMedianCut when k >= pixels.length.
EarlyReturn(pixels) == UniquePixels(pixels)

\* colorFreq: colour -> occurrence count, as the array Array.from(colorFreq.values()).
ColorFreq(pixels) ==
    LET u == UniquePixels(pixels)
    IN [i \in 1..Len(u) |->
           [color |-> u[i],
            count |-> Cardinality({j \in 1..Len(pixels) : pixels[j] = u[i]})]]

\* The initial box: all weighted pixels, bounds fixed to the whole cube.
InitialBox(weightedPixels) ==
    [pixels |-> weightedPixels,
     rMin |-> 0, rMax |-> 255, gMin |-> 0, gMax |-> 255, bMin |-> 0, bMax |-> 255]

Volume(box) == (box.rMax - box.rMin) * (box.gMax - box.gMin) * (box.bMax - box.bMin)

\* The scan for the box with the largest volume among those with more than one pixel.
RECURSIVE BoxScan(_, _, _, _)
BoxScan(boxes, i, maxVolume, boxToSplit) ==
    IF i > Len(boxes) THEN boxToSplit
    ELSE IF Volume(boxes[i]) > maxVolume /\ Len(boxes[i].pixels) > 1
         THEN BoxScan(boxes, i + 1, Volume(boxes[i]), i)
         ELSE BoxScan(boxes, i + 1, maxVolume, boxToSplit)

BoxToSplit(boxes) == BoxScan(boxes, 1, -1, 1)

\* Longest dimension of the box's stored bounds, ties in the order r, g, b.
SplitChannel(box) ==
    LET rRange == box.rMax - box.rMin
        gRange == box.gMax - box.gMin
        bRange == box.bMax - box.bMin
    IN IF rRange >= gRange /\ rRange >= bRange THEN "r"
       ELSE IF gRange >= bRange THEN "g" ELSE "b"

\* Insertion of x after every element whose channel value is <= x's (keeps equal keys in order).
RECURSIVE InsertStable(_, _, _)
InsertStable(sorted, x, ch) ==
    IF sorted = <<>> THEN <<x>>
    ELSE IF sorted[Len(sorted)].color[ch] <= x.color[ch] THEN Append(sorted, x)
    ELSE Append(InsertStable(SubSeq(sorted, 1, Len(sorted) - 1), x, ch), sorted[Len(sorted)])

RECURSIVE StableSort(_, _)
StableSort(pixels, ch) ==
    IF pixels = <<>> THEN <<>>
    ELSE InsertStable(StableSort(SubSeq(pixels, 1, Len(pixels) - 1), ch), pixels[Len(pixels)], ch)

Reverse(seq) == [i \in 1..Len(seq) |-> seq[Len(seq) + 1 - i]]

\* A sort that is not stable: equal keys may come out in their input order or reversed.
SortByChannelUnstable(pixels, ch) ==
    {StableSort(pixels, ch), StableSort(Reverse(pixels), ch)}

\* box.pixels.sort((a, b) => a.color[ch] - b.color[ch]): Array.prototype.sort is stable,
\* so exactly one ordering can result.
SortByChannel(pixels, ch) == {StableSort(pixels, ch)}

\* const median = Math.floor(box.pixels.length / 2)
Median(pixels) == Len(pixels) \div 2

RECURSIVE ChannelMin(_, _, _)
ChannelMin(pixels, ch, acc) ==
    IF pixels = <<>> THEN acc
    ELSE ChannelMin(Tail(pixels), ch, Min2(acc, Head(pixels).color[ch]))

RECURSIVE ChannelMax(_, _, _)
ChannelMax(pixels, ch, acc) ==
    IF pixels = <<>> THEN acc
    ELSE ChannelMax(Tail(pixels), ch, Max2(acc, Head(pixels).color[ch]))

\* calculateBounds joined with the pixels into a ColorBox.
MakeBox(pixels) ==
    IF Len(pixels) = 0
    THEN [pixels |-> pixels,
          rMin |-> 0, rMax |-> 255, gMin |-> 0, gMax |-> 255, bMin |-> 0, bMax |-> 255]
    ELSE [pixels |-> pixels,
          rMin |-> ChannelMin(pixels, "r", 255), rMax |-> ChannelMax(pixels, "r", 0),
          gMin |-> ChannelMin(pixels, "g", 255), gMax |-> ChannelMax(pixels, "g", 0),
          bMin |-> ChannelMin(pixels, "b", 255), bMax |-> ChannelMax(pixels, "b", 0)]

\* boxes.splice(boxToSplit, 1, leftBox, rightBox) on the sorted pixels of the chosen box.
\* The split whose right slice starts one pixel early.
SplitAtOverlap(boxes, i, sorted) ==
    LET median == Median(sorted)
        leftBox == MakeBox(SubSeq(sorted, 1, median))
        rightBox == MakeBox(SubSeq(sorted, median, Len(sorted)))
    IN SubSeq(boxes, 1, i - 1) \o <<leftBox, rightBox>> \o SubSeq(boxes, i + 1, Len(boxes))

SplitAt(boxes, i, sorted) ==
    LET median == Median(sorted)
        leftBox == MakeBox(SubSeq(sorted, 1, median))
        rightBox == MakeBox(SubSeq(sorted, median + 1, Len(sorted)))
    IN SubSeq(boxes, 1, i - 1) \o <<leftBox, rightBox>> \o SubSeq(boxes, i + 1, Len(boxes))

\* The while condition with <= in place of the first <.
LoopConditionInclusive(boxes, k, n) == Len(boxes) <= k /\ Len(boxes) < n

\* while (boxes.length < k && boxes.length < weightedPixels.length)
LoopCondition(boxes, k, n) == Len(boxes) < k /\ Len(boxes) < n

RECURSIVE WeightedSum(_, _)
WeightedSum(pixels, ch) ==
    IF pixels = <<>> THEN 0
    ELSE Head(pixels).color[ch] * Head(pixels).count + WeightedSum(Tail(pixels), ch)

RECURSIVE TotalWeight(_)
TotalWeight(pixels) ==
    IF pixels = <<>> THEN 0 ELSE Head(pixels).count + TotalWeight(Tail(pixels))

\* The count-weighted average colour of one box.
BoxAverage(box) ==
    LET w == TotalWeight(box.pixels)
    IN RGB(RoundDiv(WeightedSum(box.pixels, "r"), w),
           RoundDiv(WeightedSum(box.pixels, "g"), w),
           RoundDiv(WeightedSum(box.pixels, "b"), w))

\* The final loop: one colour per non-empty box, in box order.
RECURSIVE AverageColors(_)
AverageColors(boxes) ==
    IF boxes = <<>> THEN <<>>
    ELSE IF Len(Head(boxes).pixels) = 0 THEN AverageColors(Tail(boxes))
    ELSE <<BoxAverage(Head(boxes))>> \o AverageColors(Tail(boxes))

\* k <= 0 with < in place of <=.
KTooSmallStrict(k) == k < 0

\* if (k <= 0) throw
KTooSmall(k) == k <= 0

(***************************************************************************)
(* Runs of quantizeColors.  Two runs on the same arguments share the one   *)
(* JavaScript thread: a run that is between awaits ("running") keeps the   *)
(* thread until it yields, resolves or rejects.                            *)
(***************************************************************************)
Runs == {"a", "b"}

PixelColors == {RGB(0, 0, 0), RGB(0, 0, 255), RGB(255, 0, 0)}

SmallImages == UNION {[1..n -> PixelColors] : n \in 0..MaxPixels}

WideImage == [i \in 1..WideLen |-> RGB((i * 37) % 256, (i * 91) % 256, 0)]

\* Five pixels of three colours, the most frequent colour last in every channel order.
HeavyImage ==
    <<RGB(0, 0, 0), RGB(0, 0, 255), RGB(255, 0, 0), RGB(255, 0, 0), RGB(255, 0, 0)>>

KValues == (-1..MaxK) \cup {YieldPeriod, YieldPeriod + 1, KLimit, KLimit + 1}

SampleRates == {1, 2}

QIdle ==
    /\ qpc = [r \in Runs |-> "idle"]
    /\ qboxes = [r \in Runs |-> <<>>]
    /\ qn = [r \in Runs |-> 0]
    /\ qresult = [r \in Runs |-> <<>>]
    /\ qerror = [r \in Runs |-> ""]

QInit ==
    /\ qimage \in SmallImages \cup {WideImage, HeavyImage}
    /\ qk \in KValues
    /\ qrate \in SampleRates
    /\ QIdle

QNone == qimage = <<>> /\ qk = 1 /\ qrate = 1 /\ QIdle

ThreadFree == \A r \in Runs : qpc[r] # "running"

QReject(r, message) ==
    /\ qpc' = [qpc EXCEPT ![r] = "failed"]
    /\ qerror' = [qerror EXCEPT ![r] = message]
    /\ UNCHANGED <<qboxes, qn, qresult>>

\* quantizeColors up to the first evaluation of the while condition.
QCall(r) ==
    /\ qpc[r] = "idle"
    /\ ThreadFree
    /\ LET pixels == extractPixels(qimage, qrate)
       IN IF KTooSmall(qk) THEN QReject(r, "k must be greater than 0")
          ELSE IF qk > KLimit THEN QReject(r, "k must be 255 or less")
          ELSE IF Len(pixels) = 0 THEN QReject(r, "No pixels extracted from image")
          ELSE IF qk >= Len(pixels)
               THEN /\ qpc' = [qpc EXCEPT ![r] = "done"]
                    /\ qresult' = [qresult EXCEPT ![r] = EarlyReturn(pixels)]
                    /\ UNCHANGED <<qboxes, qn, qerror>>
               ELSE /\ qpc' = [qpc EXCEPT ![r] = "running"]
                    /\ qboxes' = [qboxes EXCEPT ![r] = <<InitialBox(ColorFreq(pixels))>>]
                    /\ qn' = [qn EXCEPT ![r] = Len(ColorFreq(pixels))]
                    /\ UNCHANGED <<qresult, qerror>>
    /\ UNCHANGED <<qimage, qk, qrate>>

\* The loop goes on: the while condition holds and the chosen box does not hit the break.
LoopGoesOn(boxes, k, n) ==
    /\ LoopCondition(boxes, k, n)
    /\ Len(boxes[BoxToSplit(boxes)].pixels) > 1

\* One iteration of the split loop, up to the await when the box count is a multiple of 10.
QSplit(r) ==
    /\ qpc[r] = "running"
    /\ LoopGoesOn(qboxes[r], qk, qn[r])
    /\ LET i == BoxToSplit(qboxes[r])
           box == qboxes[r][i]
       IN \E sorted \in SortByChannel(box.pixels, SplitChannel(box)) :
            LET boxes == SplitAt(qboxes[r], i, sorted)
            IN /\ qboxes' = [qboxes EXCEPT ![r] = boxes]
               /\ qpc' = [qpc EXCEPT ![r] =
                              IF Len(boxes) % YieldPeriod = 0 THEN "yield" ELSE "running"]
    /\ UNCHANGED <<qimage, qk, qrate, qn, qresult, qerror>>

\* yieldToBrowser resolves and the run takes the thread again.
QResume(r) ==
    /\ qpc[r] = "yield"
    /\ ThreadFree
    /\ qpc' = [qpc EXCEPT ![r] = "running"]
    /\ UNCHANGED <<qimage, qk, qrate, qboxes, qn, qresult, qerror>>

\* The loop is left: the averages are computed and returned.
QFinish(r) ==
    /\ qpc[r] = "running"
    /\ ~LoopGoesOn(qboxes[r], qk, qn[r])
    /\ qpc' = [qpc EXCEPT ![r] = "done"]
    /\ qresult' = [qresult EXCEPT ![r] = AverageColors(qboxes[r])]
    /\ UNCHANGED <<qimage, qk, qrate, qboxes, qn, qerror>>

(***************************************************************************)
(* Colour distance (colorDistance.ts).  chroma-js computes CIE L*a*b* in   *)
(* floating point; here the same formulas run in fixed point: linear RGB   *)
(* scaled by 10^5, the white-normalised XYZ by 10^9, f(t) by 10^3 and the  *)
(* L, a, b coordinates by 10^2.                                            *)
(***************************************************************************)
Infinity == 2147483647   \* stands for the initial minDistance of the scans

Undefined == [undefined |-> TRUE]   \* the JavaScript value undefined where a thread is expected

NoSymbol == ""   \* symbol: undefined

\* sRGB channel value c -> linear intensity: c/255/12.92 or ((c/255 + 0.055)/1.055)^2.4.
LinearTable == <<
    0, 30, 61, 91, 121, 152, 182, 212, 243, 273, 304, 335, 368, 402, 439,
    478, 518, 561, 605, 651, 700, 750, 802, 857, 913, 972, 1033, 1096, 1161,
    1229, 1298, 1370, 1444, 1521, 1600, 1681, 1764, 1850, 1938, 2029, 2122,
    2217, 2315, 2416, 2519, 2624, 2732, 2843, 2956, 3071, 3190, 3310, 3434,
    3560, 3689, 3820, 3955, 4092, 4231, 4374, 4519, 4667, 4817, 4971, 5127,
    5286, 5448, 5613, 5781, 5951, 6125, 6301, 6480, 6663, 6848, 7036, 7227,
    7421, 7619, 7819, 8022, 8228, 8438, 8650, 8866, 9084, 9306, 9531, 9759,
    9990, 10224, 10462, 10702, 10946, 11193, 11444, 11697, 11954, 12214,
    12477, 12744, 13014, 13287, 13563, 13843, 14126, 14413, 14703, 14996,
    15293, 15593, 15896, 16203, 16513, 16827, 17144, 17465, 17789, 18116,
    18447, 18782, 19120, 19462, 19807, 20156, 20508, 20864, 21223, 21586,
    21953, 22323, 22697, 23074, 23455, 23840, 24228, 24620, 25016, 25415,
    25818, 26225, 26636, 27050, 27468, 27889, 28315, 28744, 29177, 29614,
    30054, 30499, 30947, 31399, 31855, 32314, 32778, 33245, 33716, 34191,
    34670, 35153, 35640, 36131, 36625, 37124, 37626, 38133, 38643, 39157,
    39676, 40198, 40724, 41254, 41789, 42327, 42869, 43415, 43966, 44520,
    45079, 45641, 46208, 46778, 47353, 47932, 48515, 49102, 49693, 50289,
    50888, 51492, 52100, 52712, 53328, 53948, 54572, 55201, 55834, 56471,
    57112, 57758, 58408, 59062, 59720, 60383, 61050, 61721, 62396, 63076,
    63760, 64448, 65141, 65837, 66539, 67244, 67954, 68669, 69387, 70110,
    70838, 71569, 72306, 73046, 73791, 74540, 75294, 76052, 76815, 77582,
    78354, 79130, 79910, 80695, 81485, 82279, 83077, 83880, 84687, 85499,
    86316, 87137, 87962, 88792, 89627, 90466, 91310, 92158, 93011, 93869,
    94731, 95597, 96469, 97345, 98225, 99110, 100000
    >>

\* chroma clips a channel to 0..255 before it converts.
Linear(c) == LinearTable[Max2(0, Min2(255, c)) + 1]

\* Largest x in lo..hi with x^3 <= t.
RECURSIVE CubeRootSearch(_, _, _)
CubeRootSearch(t, lo, hi) ==
    IF lo >= hi THEN lo
    ELSE LET mid == (lo + hi + 1) \div 2
         IN IF mid * mid * mid <= t THEN CubeRootSearch(t, mid, hi)
            ELSE CubeRootSearch(t, lo, mid - 1)

\* xyz_lab: t^(1/3) above (6/29)^3, else t / (3 (6/29)^2) + 4/29.
LabF(t) ==
    IF t > 8856452 THEN CubeRootSearch(t, 0, 1000)
    ELSE ((t \div 1000) * 7787) \div 1000000 + 138

\* chroma.rgb(r, g, b).lab() with the D65 white point.
LabOf(rgb) ==
    LET lr == Linear(rgb.r)
        lg == Linear(rgb.g)
        lb == Linear(rgb.b)
        x == LabF(4340 * lr + 3762 * lg + 1898 * lb)
        y == LabF(2127 * lr + 7151 * lg + 722 * lb)
        z == LabF(178 * lr + 1095 * lg + 8727 * lb)
        l == (116 * y - 16000) \div 10
    IN <<IF l < 0 THEN 0 ELSE l, (500 * (x - y)) \div 10, (200 * (y - z)) \div 10>>

\* The colours of the catalogs, palettes and inputs of this model, converted once.
KnownColors ==
    {RGB(0, 0, 0), RGB(14, 54, 92), RGB(240, 234, 218), RGB(255, 255, 255),
     RGB(140, 140, 140), RGB(128, 128, 128), RGB(10, 10, 10), RGB(0, 0, 200),
     RGB(236, 230, 214), RGB(196, 196, 196)}

LabMemo == [rgb \in KnownColors |-> LabOf(rgb)]

Lab(rgb) == IF rgb \in KnownColors THEN LabMemo[rgb] ELSE LabOf(rgb)

\* deltaE2000: Euclidean distance of the two Lab points.  The square is kept; the square
\* root the code takes is monotone, so every comparison of two distances is unchanged.
deltaE2000(color1, color2) ==
    LET lab1 == Lab(color1)
        lab2 == Lab(color2)
        lDiff == lab1[1] - lab2[1]
        aDiff == lab1[2] - lab2[2]
        bDiff == lab1[3] - lab2[3]
    IN lDiff * lDiff + aDiff * aDiff + bDiff * bDiff

\* batchDistance with the default metric.
batchDistance(sourceColor, targetColors) ==
    [i \in 1..Len(targetColors) |-> deltaE2000(sourceColor, targetColors[i])]

\* The scan of findClosestColorIndex; indexes are 1-based here, 0-based in the code.
RECURSIVE ClosestScan(_, _, _, _)
ClosestScan(distances, i, minDistance, minIndex) ==
    IF i > Len(distances) THEN minIndex
    ELSE IF distances[i] < minDistance
         THEN ClosestScan(distances, i + 1, distances[i], i)
         ELSE ClosestScan(distances, i + 1, minDistance, minIndex)

\* The same scan with <= in place of <: the last of several nearest colours wins.
RECURSIVE ClosestScanLast(_, _, _, _)
ClosestScanLast(distances, i, minDistance, minIndex) ==
    IF i > Len(distances) THEN minIndex
    ELSE IF distances[i] <= minDistance
         THEN ClosestScanLast(distances, i + 1, distances[i], i)
         ELSE ClosestScanLast(distances, i + 1, minDistance, minIndex)

findClosestColorIndexLast(sourceColor, targetColors) ==
    ClosestScanLast(batchDistance(sourceColor, targetColors), 1, Infinity, 1)

\* findClosestColorIndex(sourceColor, targetColors) with the default metric deltaE2000.
findClosestColorIndex(sourceColor, targetColors) ==
    ClosestScan(batchDistance(sourceColor, targetColors), 1, Infinity, 1)

\* array[index] of JavaScript: undefined past the end.
At(array, index) == IF index \in 1..Len(array) THEN array[index] ELSE Undefined

RgbOf(entries) == [i \in 1..Len(entries) |-> entries[i].rgb]

(***************************************************************************)
(* Palette matcher (colorMatcher.ts).                                      *)
(***************************************************************************)
Thread(code, rgb) == [code |-> code, rgb |-> rgb, symbol |-> NoSymbol]

Dmc310 == Thread("310", RGB(0, 0, 0))
Dmc820 == Thread("820", RGB(14, 54, 92))
DmcEcru == Thread("Ecru", RGB(240, 234, 218))
DmcECRU == Thread("ECRU", RGB(240, 234, 218))
DmcB5200 == Thread("B5200", RGB(255, 255, 255))

\* The catalogs the matcher is run against: none, and two orders of a catalog in which
\* two threads carry the same RGB value.
Catalogs ==
    {<<>>,
     <<Dmc310, Dmc820, DmcEcru, DmcECRU, DmcB5200>>,
     <<DmcB5200, DmcECRU, DmcEcru, Dmc820, Dmc310>>}

MatchInputs ==
    {RGB(0, 0, 0), RGB(10, 10, 10), RGB(0, 0, 200), RGB(236, 230, 214)}

EmptyMap == <<>>

MapSet(map, key, value) ==
    [x \in DOMAIN map \cup {key} |-> IF x = key THEN value ELSE map[x]]

\* The cache key without the blue channel.
getCacheKeyNoBlue(color) == <<color.r, color.g>>

\* getCacheKey: the string `${r},${g},${b}`; the triple stands for the string.
getCacheKey(color) == <<color.r, color.g, color.b>>

\* matchColorToDMC(color, useCache) run on cache `cache`: the value returned and the cache
\* left behind.  A cached undefined is falsy and is computed again.
matchColorToDMC(color, useCache, cache, allDMCColors) ==
    IF useCache /\ getCacheKey(color) \in DOMAIN cache /\ cache[getCacheKey(color)] # Undefined
    THEN [ret |-> cache[getCacheKey(color)], cache |-> cache, cached |-> TRUE]
    ELSE LET closestIndex == findClosestColorIndex(color, RgbOf(allDMCColors))
             matched == At(allDMCColors, closestIndex)
         IN [ret |-> matched,
             cache |-> IF useCache THEN MapSet(cache, getCacheKey(color), matched) ELSE cache,
             cached |-> FALSE]

\* mcall: the colour of the last call, how it ended, what it returned, whether the cache
\* served it, and what the call before it returned.
NoCall == [color |-> RGB(0, 0, 0), status |-> "none", ret |-> Undefined,
           cached |-> FALSE, prev |-> Undefined]

MInit ==
    /\ catalog \in Catalogs
    /\ matchCache = EmptyMap
    /\ mcall = NoCall

MNone == catalog = <<>> /\ matchCache = EmptyMap /\ mcall = NoCall

\* The colours a caller passes: the enumerated inputs and the RGB value of the thread the
\* last call returned.
CallColors ==
    MatchInputs \cup (IF mcall.ret = Undefined THEN {} ELSE {mcall.ret.rgb})

\* One call matchColorToDMC(c, useCache).
MatchColor(c, useCache) ==
    /\ LET o == matchColorToDMC(c, useCache, matchCache, catalog)
       IN /\ mcall' = [color |-> c, status |-> "returned", ret |-> o.ret,
                       cached |-> o.cached, prev |-> mcall.ret]
          /\ matchCache' = o.cache
    /\ UNCHANGED catalog

\* clearMatchCache
ClearMatchCache ==
    /\ matchCache' = EmptyMap
    /\ UNCHANGED <<catalog, mcall>>

\* getMatchCacheSize
getMatchCacheSize == Cardinality(DOMAIN matchCache)

(***************************************************************************)
(* Grid mappers: mapImageToGrid (gridMapper.ts) and mapImageToGridChunked  *)
(* (patternStore.ts).  An image is [width, height, data] with data the     *)
(* row-major pixel colours.  x * scaleX is the exact quotient here; for    *)
(* the sizes of this model the floating-point product has the same floor.  *)
(***************************************************************************)
MaxSrc == 2         \* largest source width and height
MaxGrid == 3        \* largest enumerated grid width and height
TallHeight == 11    \* height of the one grid with more rows than a chunk

Image(w, h, data) == [width |-> w, height |-> h, data |-> data]

PixelAt(imageData, x, y) == imageData.data[y * imageData.width + x + 1]

NaNColor == RGB(-1, -1, -1)   \* stands for NaN, Math.round(0 / 0), in each channel

\* Sum of channel ch over the rectangle [x0, x1) x [y0, y1).
RECURSIVE AreaSum(_, _, _, _, _, _, _, _)
AreaSum(imageData, ch, x0, x1, y1, px, py, acc) ==
    IF py >= y1 THEN acc
    ELSE IF px >= x1 THEN AreaSum(imageData, ch, x0, x1, y1, x0, py + 1, acc)
    ELSE AreaSum(imageData, ch, x0, x1, y1, px + 1, py, acc + PixelAt(imageData, px, py)[ch])

\* The rectangle's average with count raised once per row instead of once per pixel.
AreaAverageRowCount(imageData, x, y, width, height) ==
    LET endX == Min2(x + width, imageData.width)
        endY == Min2(y + height, imageData.height)
        count == Max2(endY - y, 0)
    IN IF count = 0 \/ endX <= x THEN NaNColor
       ELSE RGB(RoundDiv(AreaSum(imageData, "r", x, endX, endY, x, y, 0), count),
                RoundDiv(AreaSum(imageData, "g", x, endX, endY, x, y, 0), count),
                RoundDiv(AreaSum(imageData, "b", x, endX, endY, x, y, 0), count))

\* The average of the source rectangle clamped to the image, as the inline loops of
\* mapImageToGridChunked compute it: each channel is Math.round(sum / count).
AreaAverage(imageData, x, y, width, height) ==
    LET endX == Min2(x + width, imageData.width)
        endY == Min2(y + height, imageData.height)
        count == Max2(endX - x, 0) * Max2(endY - y, 0)
    IN IF count = 0 THEN NaNColor
       ELSE RGB(RoundDiv(AreaSum(imageData, "r", x, endX, endY, x, y, 0), count),
                RoundDiv(AreaSum(imageData, "g", x, endX, endY, x, y, 0), count),
                RoundDiv(AreaSum(imageData, "b", x, endX, endY, x, y, 0), count))

\* averagePixelsInArea of gridMapper.ts: the same sums, black for an empty rectangle.
averagePixelsInArea(imageData, x, y, width, height) ==
    LET avg == AreaAverage(imageData, x, y, width, height)
    IN IF avg = NaNColor THEN RGB(0, 0, 0) ELSE avg

\* The source rectangle with its origin rounded up instead of down.
SourceRectCeil(imageData, gridWidth, gridHeight, x, y) ==
    [srcX |-> CeilDiv(x * imageData.width, gridWidth),
     srcY |-> CeilDiv(y * imageData.height, gridHeight),
     srcWidth |-> CeilDiv(imageData.width, gridWidth),
     srcHeight |-> CeilDiv(imageData.height, gridHeight)]

\* Source rectangle of cell (x, y): floor(x * scaleX), floor(y * scaleY), ceil(scaleX),
\* ceil(scaleY) with scaleX = width / gridWidth and scaleY = height / gridHeight.
SourceRect(imageData, gridWidth, gridHeight, x, y) ==
    [srcX |-> (x * imageData.width) \div gridWidth,
     srcY |-> (y * imageData.height) \div gridHeight,
     srcWidth |-> CeilDiv(imageData.width, gridWidth),
     srcHeight |-> CeilDiv(imageData.height, gridHeight)]

\* closestDMC.symbol || '?'
SymbolOr(dmc) == IF dmc.symbol = NoSymbol THEN "?" ELSE dmc.symbol

\* A cell with its coordinates exchanged.
MakeCellSwapped(x, y, dmc) == [x |-> y, y |-> x, color |-> dmc, symbol |-> SymbolOr(dmc)]

\* The PatternCell { x, y, color: closestDMC, symbol: closestDMC.symbol || '?' }.
MakeCell(x, y, dmc) == [x |-> x, y |-> y, color |-> dmc, symbol |-> SymbolOr(dmc)]

\* Squared RGB distance of findClosestDMC; NaN compares false with everything.
DistanceSq(color, rgb) ==
    (color.r - rgb.r) * (color.r - rgb.r) + (color.g - rgb.g) * (color.g - rgb.g)
        + (color.b - rgb.b) * (color.b - rgb.b)

RECURSIVE PaletteScan(_, _, _, _, _)
PaletteScan(color, dmcPalette, i, minDistanceSq, closestDMC) ==
    IF i > Len(dmcPalette) THEN closestDMC
    ELSE IF color # NaNColor /\ DistanceSq(color, dmcPalette[i].rgb) < minDistanceSq
         THEN PaletteScan(color, dmcPalette, i + 1,
                          DistanceSq(color, dmcPalette[i].rgb), dmcPalette[i])
         ELSE PaletteScan(color, dmcPalette, i + 1, minDistanceSq, closestDMC)

\* A variant of findClosestDMC whose lookup key does not depend on the colour: every
\* colour after the first is served the first colour's entry.
findClosestDMCOneKey(color, lookup, dmcPalette) ==
    IF getCacheKey(RGB(0, 0, 0)) \in DOMAIN lookup
    THEN [ret |-> lookup[getCacheKey(RGB(0, 0, 0))], lookup |-> lookup]
    ELSE LET closestDMC == PaletteScan(color, dmcPalette, 1, Infinity, At(dmcPalette, 1))
         IN [ret |-> closestDMC,
             lookup |-> MapSet(lookup, getCacheKey(RGB(0, 0, 0)), closestDMC)]

\* The closure findClosestDMC of mapImageToGridChunked on the lookup `lookup`.
findClosestDMC(color, lookup, dmcPalette) ==
    IF getCacheKey(color) \in DOMAIN lookup
    THEN [ret |-> lookup[getCacheKey(color)], lookup |-> lookup]
    ELSE LET closestDMC == PaletteScan(color, dmcPalette, 1, Infinity, At(dmcPalette, 1))
         IN [ret |-> closestDMC, lookup |-> MapSet(lookup, getCacheKey(color), closestDMC)]

\* findClosestDMCInPalette of gridMapper.ts: the perceptual metric, no cache.
findClosestDMCInPalette(color, palette) ==
    At(palette, findClosestColorIndex(color, RgbOf(palette)))

\* The colour of cell (x, y) in mapImageToGridChunked: the pixel itself when the image has
\* the grid's size, the area average otherwise.
CellColor(imageData, gridWidth, gridHeight, x, y) ==
    IF imageData.width = gridWidth /\ imageData.height = gridHeight
    THEN PixelAt(imageData, x, y)
    ELSE LET s == SourceRect(imageData, gridWidth, gridHeight, x, y)
         IN AreaAverage(imageData, s.srcX, s.srcY, s.srcWidth, s.srcHeight)

\* The cells x, x+1, ... of row y appended to `row`.  Reading .symbol of an undefined
\* closestDMC throws a TypeError.
RECURSIVE ChunkedRow(_, _, _, _, _, _, _, _)
ChunkedRow(imageData, gridWidth, gridHeight, dmcPalette, y, x, row, lookup) ==
    IF x >= gridWidth THEN [row |-> row, lookup |-> lookup, threw |-> FALSE]
    ELSE LET found == findClosestDMC(CellColor(imageData, gridWidth, gridHeight, x, y),
                                     lookup, dmcPalette)
         IN IF found.ret = Undefined
            THEN [row |-> row, lookup |-> found.lookup, threw |-> TRUE]
            ELSE ChunkedRow(imageData, gridWidth, gridHeight, dmcPalette, y, x + 1,
                            Append(row, MakeCell(x, y, found.ret)), found.lookup)

\* The rows y, ..., endY - 1 of one chunk appended to `grid`.
RECURSIVE ChunkedRows(_, _, _, _, _, _, _, _)
ChunkedRows(imageData, gridWidth, gridHeight, dmcPalette, y, endY, grid, lookup) ==
    IF y >= endY THEN [grid |-> grid, lookup |-> lookup, threw |-> FALSE]
    ELSE LET r == ChunkedRow(imageData, gridWidth, gridHeight, dmcPalette, y, 0, <<>>, lookup)
         IN IF r.threw THEN [grid |-> grid, lookup |-> r.lookup, threw |-> TRUE]
            ELSE ChunkedRows(imageData, gridWidth, gridHeight, dmcPalette, y + 1, endY,
                             Append(grid, r.row), r.lookup)

\* chunkSize of mapImageToGridChunked.
ChunkSize(isMobile, totalCells) ==
    IF isMobile THEN (IF totalCells > 25000 THEN 5 ELSE 10)
    ELSE IF totalCells > 22500 THEN 25 ELSE 50

\* A wide window that goes from one chunk to the next without an await.
YieldsOnMobileOnly(isMobile, totalCells, startY, chunkSize) ==
    IF ~isMobile THEN 0
    ELSE IF totalCells > 25000 /\ (startY \div chunkSize) % 2 = 0 THEN 3 ELSE 2

\* Number of awaits of yieldToBrowser after the chunk that starts at startY.
YieldsAfterChunk(isMobile, totalCells, startY, chunkSize) ==
    IF ~isMobile THEN 1
    ELSE IF totalCells > 25000 /\ (startY \div chunkSize) % 2 = 0 THEN 3 ELSE 2

\* The grid mapImageToGrid returns for valid arguments.
mapImageToGrid(imageData, gridWidth, gridHeight, dmcPalette) ==
    [y \in 1..gridHeight |->
        [x \in 1..gridWidth |->
            LET s == SourceRect(imageData, gridWidth, gridHeight, x - 1, y - 1)
                avgColor == averagePixelsInArea(imageData, s.srcX, s.srcY,
                                                s.srcWidth, s.srcHeight)
            IN MakeCell(x - 1, y - 1, findClosestDMCInPalette(avgColor, dmcPalette))]]

Black == RGB(0, 0, 0)
Grey == RGB(128, 128, 128)
White == RGB(255, 255, 255)
Silver == RGB(196, 196, 196)   \* nearer to 414 in RGB, nearer to B5200 in deltaE2000

UniformImage(w, h, u) == Image(w, h, [i \in 1..(w * h) |-> u])

CheckerImage(w, h) ==
    Image(w, h, [i \in 1..(w * h) |->
                    IF (((i - 1) % w) + ((i - 1) \div w)) % 2 = 0 THEN Black ELSE White])

GridImages ==
    {UniformImage(w, h, u) : w \in 1..MaxSrc, h \in 1..MaxSrc, u \in {Black, Grey, Silver}}
        \cup {CheckerImage(w, h) : w \in 1..MaxSrc, h \in 1..MaxSrc}

GridDims == ((-1..MaxGrid) \X (-1..MaxGrid)) \cup {<<1, TallHeight>>}

WithSymbol(dmc, symbol) == [dmc EXCEPT !.symbol = symbol]

Pal310 == WithSymbol(Dmc310, "A")
Pal414 == WithSymbol(Thread("414", RGB(140, 140, 140)), "B")
PalB5200 == WithSymbol(DmcB5200, "C")

GridPalettes == {<<>>, <<Pal310>>, <<Pal310, Pal414, PalB5200>>, <<PalB5200, Pal414, Pal310>>}

NoSyncCall == [status |-> "none", grid |-> <<>>, error |-> ""]

GIdle ==
    /\ gpc = "idle"
    /\ ggrid = <<>>
    /\ gstartY = 0
    /\ gyields = 0
    /\ glookup = EmptyMap
    /\ gerror = ""
    /\ gsync = NoSyncCall

GInit ==
    /\ gimage \in GridImages
    /\ \E d \in GridDims : ggw = d[1] /\ ggh = d[2]
    /\ gpalette \in GridPalettes
    /\ gmobile \in BOOLEAN
    /\ GIdle

GNone ==
    /\ gimage = Image(0, 0, <<>>)
    /\ ggw = 0
    /\ ggh = 0
    /\ gpalette = <<>>
    /\ gmobile = FALSE
    /\ GIdle

GChunkSize == ChunkSize(gmobile, ggw * ggh)

\* The chunk that starts at startY, up to the first await after it (or the TypeError).
GRunChunk(startY) ==
    LET endY == Min2(startY + GChunkSize, ggh)
        c == ChunkedRows(gimage, ggw, ggh, gpalette, startY, endY, ggrid, glookup)
    IN /\ gstartY' = startY
       /\ glookup' = c.lookup
       /\ IF c.threw
          THEN /\ gpc' = "threw"
               /\ gerror' = "TypeError"
               /\ UNCHANGED <<ggrid, gyields>>
          ELSE /\ gpc' = "yield"
               /\ ggrid' = c.grid
               /\ gyields' = YieldsAfterChunk(gmobile, ggw * ggh, startY, GChunkSize)
               /\ UNCHANGED gerror

\* mapImageToGridChunked is called: it returns at once when the row loop has nothing to
\* do, else it runs the first chunk.
GCall ==
    /\ gpc = "idle"
    /\ IF 0 < ggh
       THEN GRunChunk(0)
       ELSE /\ gpc' = "done"
            /\ UNCHANGED <<ggrid, gstartY, gyields, glookup, gerror>>
    /\ UNCHANGED <<gimage, ggw, ggh, gpalette, gmobile, gsync>>

\* An await resolves and the next await of the same chunk follows.
GYieldAgain ==
    /\ gpc = "yield"
    /\ gyields > 1
    /\ gyields' = gyields - 1
    /\ UNCHANGED <<gimage, ggw, ggh, gpalette, gmobile, gpc, ggrid, gstartY, glookup, gerror, gsync>>

\* The last await after a chunk resolves and rows are left: the next chunk runs.
GNextChunk ==
    /\ gpc = "yield"
    /\ gyields = 1
    /\ gstartY + GChunkSize < ggh
    /\ GRunChunk(gstartY + GChunkSize)
    /\ UNCHANGED <<gimage, ggw, ggh, gpalette, gmobile, gsync>>

\* The last await after the last chunk resolves: the grid is returned.
GReturn ==
    /\ gpc = "yield"
    /\ gyields = 1
    /\ gstartY + GChunkSize >= ggh
    /\ gpc' = "done"
    /\ gyields' = 0
    /\ UNCHANGED <<gimage, ggw, ggh, gpalette, gmobile, ggrid, gstartY, glookup, gerror, gsync>>

\* One call of the synchronous mapImageToGrid on the same arguments.
GSyncCall ==
    /\ gsync.status = "none"
    /\ gsync' =
         IF Len(gpalette) = 0
         THEN [status |-> "threw", grid |-> <<>>, error |-> "DMC palette cannot be empty"]
         ELSE IF ggw <= 0 \/ ggh <= 0
         THEN [status |-> "threw", grid |-> <<>>, error |-> "Grid dimensions must be positive"]
         ELSE [status |-> "returned", grid |-> mapImageToGrid(gimage, ggw, ggh, gpalette),
               error |-> ""]
    /\ UNCHANGED <<gimage, ggw, ggh, gpalette, gmobile, gpc, ggrid, gstartY, gyields,
                   glookup, gerror>>

(***************************************************************************)
(* Symbol table (symbols.ts) and symbol assignment (symbolAssigner.ts).    *)
(* A glyph outside ASCII is written as its code point, "U+25CF" for the    *)
(* black circle: two glyphs are the same string exactly when they are the  *)
(* same character.                                                         *)
(***************************************************************************)
MaxPalette == 62

BASIC_SYMBOLS ==
    <<"U+25CF", "U+25A0", "U+25B2", "U+2666", "U+2605", "+", "U+00D7", "U+25CB", "U+25A1",
      "U+25B3">>

LETTER_SYMBOLS ==
    <<"A", "B", "C", "D", "E", "F", "G", "H", "I", "J", "K", "L", "M",
      "N", "O", "P", "Q", "R", "S", "T", "U", "V", "W", "X", "Y", "Z">>

NUMBER_SYMBOLS == <<"0", "1", "2", "3", "4", "5", "6", "7", "8", "9">>

EXTENDED_SYMBOLS ==
    <<"U+25C6", "U+25BC", "U+25C0", "U+25B6", "U+2606", "U+2B1F", "U+25EF", "U+25AA",
      "U+25B4", "U+2B22", "U+2295", "U+2297", "U+2299", "U+25D0", "U+25D1">>

getAllSymbols == BASIC_SYMBOLS \o LETTER_SYMBOLS \o NUMBER_SYMBOLS \o EXTENDED_SYMBOLS

getSymbolCount == Len(getAllSymbols)

\* A cycle one glyph short of the table: index % (symbols.length - 1).
assignSymbolsShortCycle(palette) ==
    [index \in 1..Len(palette) |->
        [palette[index] EXCEPT !.symbol = getAllSymbols[((index - 1) % (Len(getAllSymbols) - 1)) + 1]]]

\* palette.map((color, index) => ({...color, symbol: symbols[index % symbols.length]}));
\* `index` is 1-based here.
assignSymbolsToPalette(palette) ==
    [index \in 1..Len(palette) |->
        [palette[index] EXCEPT !.symbol = getAllSymbols[((index - 1) % Len(getAllSymbols)) + 1]]]

\* The loop returns false at the first entry without a symbol or whose symbol an earlier
\* entry has, true when it runs to the end.
hasUniqueSymbols(palette) ==
    \A i \in 1..Len(palette) :
        /\ palette[i].symbol # NoSymbol
        /\ \A j \in 1..(i - 1) : palette[j].symbol # palette[i].symbol

\* The palettes handed to the assigner: n matched threads, either straight from the
\* matcher (no symbol yet) or carrying the symbols of an earlier assignment, as in
\* removeColor.
PaletteThreads == <<Dmc310, Dmc820, DmcEcru, DmcB5200>>

PaletteOf(n, stale) ==
    [i \in 1..n |->
        LET dmc == PaletteThreads[((i - 1) % Len(PaletteThreads)) + 1]
        IN IF stale THEN WithSymbol(dmc, getAllSymbols[((n - i) % Len(getAllSymbols)) + 1])
           ELSE dmc]

SInit ==
    /\ spalette \in {PaletteOf(n, stale) : n \in 0..MaxPalette, stale \in BOOLEAN}
    /\ spc = "idle"
    /\ sresult = <<>>
    /\ sunique = FALSE

SNone == spalette = <<>> /\ spc = "idle" /\ sresult = <<>> /\ sunique = FALSE

SAssign ==
    /\ spc = "idle"
    /\ sresult' = assignSymbolsToPalette(spalette)
    /\ spc' = "assigned"
    /\ UNCHANGED <<spalette, sunique>>

SHasUnique ==
    /\ spc = "assigned"
    /\ sunique' = hasUniqueSymbols(sresult)
    /\ spc' = "checked"
    /\ UNCHANGED <<spalette, sresult>>

(***************************************************************************)
(* applyQuantizedColors (colorQuantization.ts).  A pixel is a record of    *)
(* the four bytes r, g, b, a of the ImageData buffer.                      *)
(***************************************************************************)
MaxRecolor == 3     \* pixels of the images handed to applyQuantizedColors
MaxQuantized == 2   \* length of the quantizedColors lists handed to it

RGBA(r, g, b, a) == [r |-> r, g |-> g, b |-> b, a |-> a]

\* newImageData built on the buffer of imageData.data itself, without a copy.
NewImageDataShared(imageData) == [data |-> imageData.data, shares |-> TRUE]

\* new ImageData(new Uint8ClampedArray(imageData.data), width, height): a typed array built
\* from a typed array is a copy.
NewImageData(imageData) == [data |-> imageData.data, shares |-> FALSE]

RecolorChunkSize(isMobile) == IF isMobile THEN 10000 ELSE 50000

SpanLength == 100   \* pixels of a loop the model runs in one piece

\* The scan that keeps the last of the nearest colours (<= in place of <).
RECURSIVE QuantizedScanLast(_, _, _, _, _)
QuantizedScanLast(pixel, quantizedColors, i, minDistanceSq, closestColor) ==
    IF i > Len(quantizedColors) THEN closestColor
    ELSE IF DistanceSq(pixel, quantizedColors[i]) <= minDistanceSq
         THEN QuantizedScanLast(pixel, quantizedColors, i + 1,
                                DistanceSq(pixel, quantizedColors[i]), quantizedColors[i])
         ELSE QuantizedScanLast(pixel, quantizedColors, i + 1, minDistanceSq, closestColor)

\* for (const q of quantizedSquared) { if (distanceSq < minDistanceSq) ... }
RECURSIVE QuantizedScan(_, _, _, _, _)
QuantizedScan(pixel, quantizedColors, i, minDistanceSq, closestColor) ==
    IF i > Len(quantizedColors) THEN closestColor
    ELSE IF DistanceSq(pixel, quantizedColors[i]) < minDistanceSq
         THEN QuantizedScan(pixel, quantizedColors, i + 1,
                            DistanceSq(pixel, quantizedColors[i]), quantizedColors[i])
         ELSE QuantizedScan(pixel, quantizedColors, i + 1, minDistanceSq, closestColor)

\* The inner loop over the pixels j, ..., end - 1 of one chunk.  Reading .r of an undefined
\* closestColor throws a TypeError.  Only r, g and b of a pixel are written.
RECURSIVE RecolorChunk(_, _, _, _, _)
RecolorChunk(data, j, end, colorCache, quantizedColors) ==
    IF j >= end THEN [data |-> data, colorCache |-> colorCache, threw |-> FALSE]
    ELSE LET pixel == data[j + 1]
             pixelKey == getCacheKey(pixel)
             closestColor ==
                 IF pixelKey \in DOMAIN colorCache THEN colorCache[pixelKey]
                 ELSE QuantizedScan(pixel, quantizedColors, 1, Infinity, At(quantizedColors, 1))
             cache == MapSet(colorCache, pixelKey, closestColor)
         IN IF closestColor = Undefined
            THEN [data |-> data, colorCache |-> cache, threw |-> TRUE]
            ELSE RecolorChunk([data EXCEPT ![j + 1] = [pixel EXCEPT !.r = closestColor.r,
                                                                    !.g = closestColor.g,
                                                                    !.b = closestColor.b]],
                              j + 1, end, cache, quantizedColors)

\* The same loop over j, ..., end - 1, run as two consecutive halves when it is long: the
\* second half goes on from the buffer and the cache the first half left.
RECURSIVE RecolorSpan(_, _, _, _, _)
RecolorSpan(data, j, end, colorCache, quantizedColors) ==
    IF end - j <= SpanLength
    THEN RecolorChunk(data, j, end, colorCache, quantizedColors)
    ELSE LET mid == j + ((end - j) \div 2)
             first == RecolorSpan(data, j, mid, colorCache, quantizedColors)
         IN IF first.threw THEN first
            ELSE RecolorSpan(first.data, mid, end, first.colorCache, quantizedColors)

\* The whole call, for callers that only await its result: the image it resolves with, or
\* threw = TRUE, and the number of awaits of yieldToBrowser it goes through.
applyQuantizedColors(imageData, quantizedColors, isMobile) ==
    LET run == RecolorChunk(imageData.data, 0, Len(imageData.data), EmptyMap, quantizedColors)
    IN [threw |-> run.threw,
        image |-> [imageData EXCEPT !.data = run.data],
        yields |-> CeilDiv(Len(imageData.data), RecolorChunkSize(isMobile))
                      * (IF isMobile THEN 2 ELSE 1)]

RecolorPixels == {RGBA(0, 0, 127, 255), RGBA(0, 0, 0, 0), RGBA(255, 255, 255, 128)}

RecolorData == UNION {[1..n -> RecolorPixels] : n \in 0..MaxRecolor}

\* An image of one pixel more than a chunk of a narrow window.
LongImage ==
    Image(RecolorChunkSize(TRUE) + 1, 1,
          [i \in 1..(RecolorChunkSize(TRUE) + 1) |-> RGBA(0, 0, 127, 255)])

RecolorImages ==
    {Image(Len(d), 1, d) : d \in RecolorData \ {<<>>}}
        \cup {Image(1, Len(d), d) : d \in RecolorData \ {<<>>}}
        \cup {Image(0, 0, <<>>)}

\* Black and RGB(0, 0, 254) are equally far from the pixel RGB(0, 0, 127).
QuantizedLists ==
    UNION {[1..n -> {RGB(0, 0, 0), RGB(0, 0, 254), RGB(255, 255, 255)}] : n \in 0..MaxQuantized}

RIdle ==
    /\ rpc = "idle"
    /\ rdata = <<>>
    /\ rshares = FALSE
    /\ ri = 0
    /\ ryields = 0
    /\ rcache = EmptyMap

RInit ==
    /\ rimage \in RecolorImages
    /\ rcolors \in QuantizedLists
    /\ rmobile \in BOOLEAN
    /\ RIdle

\* The calls of the chunked loops: those of RInit, and one on the long image.
RChunkInit ==
    /\ \/ rimage \in RecolorImages /\ rcolors \in QuantizedLists
       \/ rimage = LongImage /\ rcolors = <<RGB(0, 0, 0), RGB(255, 255, 255)>>
    /\ rmobile \in BOOLEAN
    /\ RIdle

RNone == rimage = Image(0, 0, <<>>) /\ rcolors = <<>> /\ rmobile = FALSE /\ RIdle

\* One chunk of the outer loop, starting at pixel i of the buffer `data`; a write to a
\* shared buffer is a write to imageData.data.
RRunChunk(data, shares, i) ==
    LET totalPixels == Len(data)
        end == Min2(i + RecolorChunkSize(rmobile), totalPixels)
        run == RecolorSpan(data, i, end, rcache, rcolors)
    IN /\ rdata' = run.data
       /\ rshares' = shares
       /\ rimage' = IF shares THEN [rimage EXCEPT !.data = run.data] ELSE rimage
       /\ rcache' = run.colorCache
       /\ ri' = i
       /\ IF run.threw THEN rpc' = "failed" /\ ryields' = 0
          ELSE rpc' = "yield" /\ ryields' = (IF rmobile THEN 2 ELSE 1)

\* applyQuantizedColors up to its first await, or to its return for an image without pixels.
RCall ==
    /\ rpc = "idle"
    /\ LET new == NewImageData(rimage)
       IN IF Len(new.data) = 0
          THEN /\ rpc' = "done"
               /\ rdata' = new.data
               /\ rshares' = new.shares
               /\ UNCHANGED <<rimage, ri, ryields, rcache>>
          ELSE RRunChunk(new.data, new.shares, 0)
    /\ UNCHANGED <<rcolors, rmobile>>

\* The extra await of yieldToBrowser on mobile.
RYieldAgain ==
    /\ rpc = "yield"
    /\ ryields > 1
    /\ ryields' = ryields - 1
    /\ UNCHANGED <<rimage, rcolors, rmobile, rpc, rdata, rshares, ri, rcache>>

\* The last await after a chunk resolves: the next chunk runs, or the call returns.
RResume ==
    /\ rpc = "yield"
    /\ ryields = 1
    /\ IF ri + RecolorChunkSize(rmobile) < Len(rdata)
       THEN RRunChunk(rdata, rshares, ri + RecolorChunkSize(rmobile))
       ELSE /\ rpc' = "done"
            /\ ryields' = 0
            /\ UNCHANGED <<rimage, rdata, rshares, ri, rcache>>
    /\ UNCHANGED <<rcolors, rmobile>>

(***************************************************************************)
(* The pipeline stages as generatePattern awaits them (patternStore.ts).   *)
(***************************************************************************)
\* The split loop of quantizeColorsMedianCut run to its end.
RECURSIVE MedianCutLoop(_, _, _)
MedianCutLoop(boxes, k, n) ==
    IF LoopGoesOn(boxes, k, n)
    THEN LET i == BoxToSplit(boxes)
             box == boxes[i]
             sorted == CHOOSE s \in SortByChannel(box.pixels, SplitChannel(box)) : TRUE
         IN MedianCutLoop(SplitAt(boxes, i, sorted), k, n)
    ELSE boxes

\* quantizeColors as its caller sees it: the colours it resolves with, or the message of
\* the error it rejects with.
quantizeColors(imageData, k, sampleRate) ==
    LET pixels == extractPixels(imageData.data, sampleRate)
        Thrown(message) == [threw |-> TRUE, error |-> message, colors |-> <<>>]
        Returned(colors) == [threw |-> FALSE, error |-> "", colors |-> colors]
    IN IF KTooSmall(k) THEN Thrown("k must be greater than 0")
       ELSE IF k > KLimit THEN Thrown("k must be 255 or less")
       ELSE IF Len(pixels) = 0 THEN Thrown("No pixels extracted from image")
       ELSE IF k >= Len(pixels) THEN Returned(EarlyReturn(pixels))
       ELSE Returned(AverageColors(MedianCutLoop(<<InitialBox(ColorFreq(pixels))>>, k,
                                                 Len(ColorFreq(pixels)))))

getOptimalSampleRate(width, height) ==
    LET totalPixels == width * height
    IN IF totalPixels > 1000000 THEN 5
       ELSE IF totalPixels > 500000 THEN 3
       ELSE IF totalPixels > 250000 THEN 2
       ELSE 1

\* colors.map((color) => matchColorToDMC(color)) on the module's cache: one entry per
\* colour, in order, equal entries included.
RECURSIVE matchColorsToDMC(_, _, _)
matchColorsToDMC(colors, cache, allDMCColors) ==
    IF colors = <<>> THEN [ret |-> <<>>, cache |-> cache]
    ELSE LET first == matchColorToDMC(Head(colors), TRUE, cache, allDMCColors)
             rest == matchColorsToDMC(Tail(colors), first.cache, allDMCColors)
         IN [ret |-> <<first.ret>> \o rest.ret, cache |-> rest.cache]

\* resizeToGrid draws the image onto a gridWidth x gridHeight canvas and reads it back.
\* getImageData throws an IndexSizeError for a width or height of 0.  How drawImage
\* resamples is the browser's choice: the pixel at the cell's origin and the average of the
\* cell's source rectangle are the two outcomes kept; they agree when the sizes are equal.
resizeToGrid(imageData, gridWidth, gridHeight) ==
    IF gridWidth = 0 \/ gridHeight = 0 THEN {[threw |-> TRUE, image |-> Image(0, 0, <<>>)]}
    ELSE {[threw |-> FALSE,
           image |-> Image(gridWidth, gridHeight,
                       [i \in 1..(gridWidth * gridHeight) |->
                           LET s == SourceRect(imageData, gridWidth, gridHeight,
                                               (i - 1) % gridWidth, (i - 1) \div gridWidth)
                           IN IF smooth
                              THEN AreaAverage(imageData, s.srcX, s.srcY, s.srcWidth, s.srcHeight)
                              ELSE PixelAt(imageData, s.srcX, s.srcY)])] : smooth \in BOOLEAN}

\* Awaits of yieldToBrowser mapImageToGridChunked goes through: those after every chunk.
RECURSIVE MapYields(_, _, _, _)
MapYields(isMobile, totalCells, gridHeight, startY) ==
    IF startY >= gridHeight THEN 0
    ELSE YieldsAfterChunk(isMobile, totalCells, startY, ChunkSize(isMobile, totalCells))
             + MapYields(isMobile, totalCells, gridHeight,
                         startY + ChunkSize(isMobile, totalCells))

\* mapImageToGridChunked as its caller sees it: the chunks share the one lookup.
mapImageToGridChunked(imageData, gridWidth, gridHeight, dmcPalette) ==
    ChunkedRows(imageData, gridWidth, gridHeight, dmcPalette, 0, gridHeight, <<>>, EmptyMap)

(***************************************************************************)
(* The pattern store (patternStore.ts).  null is the record Null, a null   *)
(* error the empty string; metadata.createdAt is left out.                 *)
(***************************************************************************)
MaxCalls == 3   \* calls of the store's other operations in one behaviour

Null == [null |-> TRUE]

NoError == ""

\* pload when no loadImage call is in flight, and a file loadImageFile rejects.
NoLoad == [none |-> TRUE]

BadFile == [bad |-> TRUE]

Settings(maxColors, gridWidth, gridHeight) ==
    [maxColors |-> maxColors, gridWidth |-> gridWidth, gridHeight |-> gridHeight]

\* The settings the model moves between: one that generates, one whose grid takes two
\* chunks on a narrow window, one that quantizeColors rejects and one that resizeToGrid
\* rejects.
StoreSettings ==
    {Settings(2, 2, 1), Settings(2, 1, TallHeight), Settings(0, 1, 1), Settings(2, 0, 1)}

\* The images loadImageFile resolves with.  The two colours of the first match the same
\* catalog entry.
StoreImages ==
    {Image(2, 1, <<RGB(0, 0, 0), RGB(10, 10, 10)>>),
     Image(3, 1, <<RGB(0, 0, 0), RGB(255, 255, 255), RGB(255, 255, 255)>>)}

StoreCatalog == <<Dmc310, Dmc820, DmcEcru, DmcECRU, DmcB5200>>

NewRun ==
    [pc |-> "idle", originalImage |-> Null, settings |-> Null, quantizedColors |-> <<>>,
     paletteWithSymbols |-> <<>>, processedImage |-> Null, resizedImage |-> Null,
     grid |-> <<>>, yields |-> 0]

InFlight(r) ==
    prun[r].pc \in {"quantized", "matched", "assigned", "recolored", "resized", "mapped"}

PInit ==
    /\ store = [originalImage |-> Null, processedImage |-> Null, quantizedColors |-> <<>>,
                settings |-> Settings(2, 2, 1), dmcPalette |-> <<>>, pattern |-> Null,
                isProcessing |-> FALSE, error |-> NoError]
    /\ prun = [r \in Runs |-> NewRun]
    /\ pqueue = <<>>
    /\ pload = NoLoad
    /\ pmobile \in BOOLEAN
    /\ pcalls = 0

PNone ==
    /\ store = Null
    /\ prun = [r \in Runs |-> NewRun]
    /\ pqueue = <<>>
    /\ pload = NoLoad
    /\ pmobile = FALSE
    /\ pcalls = 0

\* The catch block that also drops the pattern.
CatchDropsPattern(state, errorMessage) ==
    [state EXCEPT !.error = errorMessage, !.isProcessing = FALSE, !.pattern = Null]

\* catch (error) { set({ error: errorMessage, isProcessing: false }) }
Catch(state, errorMessage) == [state EXCEPT !.error = errorMessage, !.isProcessing = FALSE]

\* The call of generatePattern r stops in its catch block.
PFail(r, state, errorMessage) ==
    /\ store' = Catch(state, errorMessage)
    /\ prun' = [prun EXCEPT ![r].pc = "failed"]

\* The call r awaits yieldToBrowser `yields` times before it goes on from `run`: its timer
\* is set after those of `queue`.
PAwait(r, run, yields, queue) ==
    /\ prun' = [prun EXCEPT ![r] = [run EXCEPT !.yields = yields]]
    /\ pqueue' = Append(queue, r)

\* The timer of the call at the head of the queue fires, and the call is not at an extra
\* yield.
Resumes(r, pc) ==
    /\ pqueue # <<>>
    /\ Head(pqueue) = r
    /\ prun[r].pc = pc
    /\ prun[r].yields = 1

POthers == <<qvars, catalog, mcall, gvars, svars, rvars, cvars, jvars>>

\* loadImage up to its await, and the file it was given: one of the images, or a file
\* loadImageFile rejects.
StoreLoadImage ==
    /\ pcalls < MaxCalls
    /\ pcalls' = pcalls + 1
    /\ pload = NoLoad
    /\ \E file \in StoreImages \cup {BadFile} : pload' = file
    /\ store' = [store EXCEPT !.isProcessing = TRUE, !.error = NoError]
    /\ UNCHANGED <<prun, pqueue, pmobile, matchCache, POthers>>

\* loadImageFile resolves or rejects.
StoreImageLoaded ==
    /\ pload # NoLoad
    /\ store' = IF pload = BadFile THEN Catch(store, "Failed to load image")
                ELSE [store EXCEPT !.originalImage = pload, !.processedImage = Null,
                                   !.pattern = Null, !.isProcessing = FALSE]
    /\ pload' = NoLoad
    /\ UNCHANGED <<prun, pqueue, pmobile, matchCache, pcalls, POthers>>

StoreUpdateSettings ==
    /\ pcalls < MaxCalls
    /\ pcalls' = pcalls + 1
    /\ \E newSettings \in StoreSettings : store' = [store EXCEPT !.settings = newSettings]
    /\ UNCHANGED <<prun, pqueue, pload, pmobile, matchCache, POthers>>

\* generatePattern up to its first await of yieldToBrowser; "a" is the first call, "b" the
\* second.  quantizeColors does not yield on images this small.
StoreGenerate ==
    /\ \E r \in Runs :
        /\ prun[r].pc = "idle"
        /\ r = "b" => prun["a"].pc # "idle"
        /\ IF store.originalImage = Null
           THEN /\ store' = [store EXCEPT !.error = "No image loaded"]
                /\ prun' = [prun EXCEPT ![r].pc = "returned"]
                /\ UNCHANGED pqueue
           ELSE LET started == [store EXCEPT !.isProcessing = TRUE, !.error = NoError]
                    originalImage == store.originalImage
                    q == quantizeColors(originalImage, store.settings.maxColors,
                             getOptimalSampleRate(originalImage.width, originalImage.height))
                IN IF q.threw THEN PFail(r, started, q.error) /\ UNCHANGED pqueue
                   ELSE /\ store' = started
                        /\ PAwait(r, [prun[r] EXCEPT !.pc = "quantized",
                                                     !.originalImage = originalImage,
                                                     !.settings = store.settings,
                                                     !.quantizedColors = q.colors],
                                     1, pqueue)
    /\ UNCHANGED <<pload, pmobile, matchCache, pcalls, POthers>>

\* An extra await that is followed by one more extra await each time.
StoreYieldAgainForEver ==
    /\ pqueue # <<>>
    /\ prun[Head(pqueue)].yields > 1
    /\ prun' = [prun EXCEPT ![Head(pqueue)].yields = IF @ = 2 THEN 3 ELSE @ - 1]
    /\ pqueue' = Append(Tail(pqueue), Head(pqueue))
    /\ UNCHANGED <<store, pload, pmobile, matchCache, pcalls, POthers>>

\* An extra await of yieldToBrowser resolves and the next one is awaited.
StoreYieldAgain ==
    /\ pqueue # <<>>
    /\ prun[Head(pqueue)].yields > 1
    /\ prun' = [prun EXCEPT ![Head(pqueue)].yields = @ - 1]
    /\ pqueue' = Append(Tail(pqueue), Head(pqueue))
    /\ UNCHANGED <<store, pload, pmobile, matchCache, pcalls, POthers>>

\* Step 2: matchColorsToDMC.
StoreMatch ==
    /\ \E r \in Runs :
        /\ Resumes(r, "quantized")
        /\ LET matchedDMC == matchColorsToDMC(prun[r].quantizedColors, matchCache, catalog)
           IN /\ matchCache' = matchedDMC.cache
              /\ PAwait(r, [prun[r] EXCEPT !.pc = "matched",
                                           !.paletteWithSymbols = matchedDMC.ret],
                        1, Tail(pqueue))
    /\ UNCHANGED <<store, pload, pmobile, pcalls, POthers>>

\* Step 3: assignSymbolsToPalette.
StoreAssign ==
    /\ \E r \in Runs :
        /\ Resumes(r, "matched")
        /\ PAwait(r, [prun[r] EXCEPT !.pc = "assigned",
                                     !.paletteWithSymbols = assignSymbolsToPalette(@)],
                  1, Tail(pqueue))
    /\ UNCHANGED <<store, pload, pmobile, matchCache, pcalls, POthers>>

\* Step 4: applyQuantizedColors, its awaits and the await that follows it.  The chunks after
\* the first write only the call's own buffer and are computed with the first.
StoreRecolor ==
    /\ \E r \in Runs :
        /\ Resumes(r, "assigned")
        /\ LET applied == applyQuantizedColors(prun[r].originalImage, prun[r].quantizedColors,
                                               pmobile)
           IN IF applied.threw
              THEN /\ PFail(r, store, "Cannot read properties of undefined (reading 'r')")
                   /\ pqueue' = Tail(pqueue)
              ELSE /\ PAwait(r, [prun[r] EXCEPT !.pc = "recolored",
                                                !.processedImage = applied.image],
                             applied.yields + 1, Tail(pqueue))
                   /\ UNCHANGED store
    /\ UNCHANGED <<pload, pmobile, matchCache, pcalls, POthers>>

\* Step 5: resizeToGrid.
StoreResize ==
    /\ \E r \in Runs :
        /\ Resumes(r, "recolored")
        /\ \E resized \in resizeToGrid(prun[r].processedImage, prun[r].settings.gridWidth,
                                       prun[r].settings.gridHeight) :
              IF resized.threw
              THEN /\ PFail(r, store, "IndexSizeError")
                   /\ pqueue' = Tail(pqueue)
              ELSE /\ PAwait(r, [prun[r] EXCEPT !.pc = "resized",
                                                !.resizedImage = resized.image],
                             1, Tail(pqueue))
                   /\ UNCHANGED store
    /\ UNCHANGED <<pload, pmobile, matchCache, pcalls, POthers>>

\* Step 6: mapImageToGridChunked and its awaits.  The chunks after the first write only the
\* call's own grid and are computed with the first.
StoreMap ==
    /\ \E r \in Runs :
        /\ Resumes(r, "resized")
        /\ LET gridWidth == prun[r].settings.gridWidth
               gridHeight == prun[r].settings.gridHeight
               mapped == mapImageToGridChunked(prun[r].resizedImage, gridWidth, gridHeight,
                                               prun[r].paletteWithSymbols)
           IN IF mapped.threw
              THEN /\ PFail(r, store, "Cannot read properties of undefined (reading 'symbol')")
                   /\ pqueue' = Tail(pqueue)
              ELSE /\ PAwait(r, [prun[r] EXCEPT !.pc = "mapped", !.grid = mapped.grid],
                             MapYields(pmobile, gridWidth * gridHeight, gridHeight, 0),
                             Tail(pqueue))
                   /\ UNCHANGED store
    /\ UNCHANGED <<pload, pmobile, matchCache, pcalls, POthers>>

\* Step 7: the pattern object a call builds from its local constants.
Pattern(run) ==
    [width |-> run.settings.gridWidth,
     height |-> run.settings.gridHeight,
     cells |-> run.grid,
     palette |-> run.paletteWithSymbols,
     metadata |-> [originalWidth |-> run.originalImage.width,
                   originalHeight |-> run.originalImage.height,
                   colorCount |-> Len(run.paletteWithSymbols)]]

\* A publication that does not wait for mapImageToGridChunked.
StorePublishEarly ==
    /\ \E r \in Runs :
        /\ Resumes(r, "resized")
        /\ store' = [store EXCEPT !.quantizedColors = prun[r].quantizedColors,
                                  !.dmcPalette = prun[r].paletteWithSymbols,
                                  !.processedImage = prun[r].processedImage,
                                  !.pattern = Pattern(prun[r]),
                                  !.isProcessing = FALSE]
        /\ prun' = [prun EXCEPT ![r].pc = "done", ![r].yields = 0]
        /\ pqueue' = Tail(pqueue)
    /\ UNCHANGED <<pload, pmobile, matchCache, pcalls, POthers>>

\* The last await of mapImageToGridChunked resolves: the pattern is built and the one set
\* call publishes the results.
StorePublish ==
    /\ \E r \in Runs :
        /\ Resumes(r, "mapped")
        /\ store' = [store EXCEPT !.quantizedColors = prun[r].quantizedColors,
                                  !.dmcPalette = prun[r].paletteWithSymbols,
                                  !.processedImage = prun[r].processedImage,
                                  !.pattern = Pattern(prun[r]),
                                  !.isProcessing = FALSE]
        /\ prun' = [prun EXCEPT ![r].pc = "done", ![r].yields = 0]
        /\ pqueue' = Tail(pqueue)
    /\ UNCHANGED <<pload, pmobile, matchCache, pcalls, POthers>>

\* palette.find((c) => c.code === code)
FindByCode(palette, code) ==
    LET found == {i \in 1..Len(palette) : palette[i].code = code}
    IN IF found = {} THEN Undefined
       ELSE palette[CHOOSE i \in found : \A j \in found : i <= j]

\* removeColor past its guard: the state it sets, or threw = TRUE when a cell of the removed
\* colour finds the new palette empty (newColor is undefined, reading .symbol throws).
removeColor(state, dmcCode) ==
    LET pattern == state.pattern
        newPalette == SelectSeq(state.dmcPalette, LAMBDA c : c.code # dmcCode)
        newPaletteWithSymbols == assignSymbolsToPalette(newPalette)
        NewCell(cell) ==
            IF cell.color.code = dmcCode
            THEN LET newColor == newPaletteWithSymbols[1]
                 IN [cell EXCEPT !.color = newColor, !.symbol = newColor.symbol]
            ELSE LET updatedColor == FindByCode(newPaletteWithSymbols, cell.color.code)
                 IN IF updatedColor # Undefined
                    THEN [cell EXCEPT !.color = updatedColor, !.symbol = updatedColor.symbol]
                    ELSE cell
        threw ==
            /\ newPaletteWithSymbols = <<>>
            /\ \E y \in 1..Len(pattern.cells) : \E x \in 1..Len(pattern.cells[y]) :
                  pattern.cells[y][x].color.code = dmcCode
    IN IF threw THEN [threw |-> TRUE, state |-> state]
       ELSE [threw |-> FALSE,
             state |-> [state EXCEPT
                 !.dmcPalette = newPaletteWithSymbols,
                 !.pattern = [pattern EXCEPT
                     !.cells = [y \in 1..Len(pattern.cells) |->
                                   [x \in 1..Len(pattern.cells[y]) |->
                                       NewCell(pattern.cells[y][x])]],
                     !.palette = newPaletteWithSymbols,
                     !.metadata.colorCount = Len(newPaletteWithSymbols)]]]

StoreCodes == {"310", "B5200"}

\* A call of removeColor with its guard: threw = TRUE when the call ends in a TypeError,
\* and the state it leaves.
RemoveColorCall(state, dmcCode) ==
    IF state.pattern = Null \/ Len(state.dmcPalette) <= 1
    THEN [threw |-> FALSE, state |-> [state EXCEPT !.error = "Cannot remove the last color"]]
    ELSE removeColor(state, dmcCode)

StoreRemoveColor ==
    /\ pcalls < MaxCalls
    /\ pcalls' = pcalls + 1
    /\ \E dmcCode \in StoreCodes : store' = RemoveColorCall(store, dmcCode).state
    /\ UNCHANGED <<prun, pqueue, pload, pmobile, matchCache, POthers>>

\* replaceColor that leaves the palette as it is.
replaceColorCellsOnly(state, oldCode, newDMC) ==
    LET cells == state.pattern.cells
    IN [state EXCEPT
           !.pattern.cells =
               [y \in 1..Len(cells) |->
                   [x \in 1..Len(cells[y]) |->
                       IF cells[y][x].color.code = oldCode
                       THEN [cells[y][x] EXCEPT !.color = WithSymbol(newDMC, cells[y][x].symbol)]
                       ELSE cells[y][x]]]]

\* replaceColor past its guard.
replaceColor(state, oldCode, newDMC) ==
    LET pattern == state.pattern
        newPalette == [i \in 1..Len(state.dmcPalette) |->
                          IF state.dmcPalette[i].code = oldCode
                          THEN WithSymbol(newDMC, state.dmcPalette[i].symbol)
                          ELSE state.dmcPalette[i]]
        newGrid == [y \in 1..Len(pattern.cells) |->
                       [x \in 1..Len(pattern.cells[y]) |->
                           LET cell == pattern.cells[y][x]
                           IN IF cell.color.code = oldCode
                              THEN [cell EXCEPT !.color = WithSymbol(newDMC, cell.symbol)]
                              ELSE cell]]
    IN [state EXCEPT !.dmcPalette = newPalette,
                     !.pattern = [pattern EXCEPT !.cells = newGrid, !.palette = newPalette]]

StoreReplaceColor ==
    /\ pcalls < MaxCalls
    /\ pcalls' = pcalls + 1
    /\ store.pattern # Null
    /\ \E oldCode \in StoreCodes, newDMC \in {Dmc820} :
          store' = replaceColor(store, oldCode, newDMC)
    /\ UNCHANGED <<prun, pqueue, pload, pmobile, matchCache, POthers>>

\* The settings reset restores: the settings of PInit stand for DEFAULT_SETTINGS, whose
\* 100 x 100 grid is beyond the grids of this model.
StoreDefaultSettings == Settings(2, 2, 1)

\* reset: one set call, which leaves isProcessing as it is.
StoreReset ==
    /\ pcalls < MaxCalls
    /\ pcalls' = pcalls + 1
    /\ store' = [store EXCEPT !.originalImage = Null, !.processedImage = Null,
                              !.quantizedColors = <<>>, !.settings = StoreDefaultSettings,
                              !.dmcPalette = <<>>, !.pattern = Null, !.error = NoError]
    /\ UNCHANGED <<prun, pqueue, pload, pmobile, matchCache, POthers>>

(***************************************************************************)
(* The settings controls (Sidebar.tsx, ControlPanel) on the settings of    *)
(* usePatternStore.  maintainAspectRatio and colorlessMode, which no       *)
(* numeric control reads or writes, are left out of the settings.          *)
(***************************************************************************)
MaxEdits == 3   \* change and blur events in one behaviour

DEFAULT_SETTINGS == Settings(20, 100, 100)

DigitChars == <<"0", "1", "2", "3", "4", "5", "6", "7", "8", "9">>

IsDigit(c) == \E d \in 1..10 : DigitChars[d] = c

DigitValue(c) == (CHOOSE d \in 1..10 : DigitChars[d] = c) - 1

RECURSIVE ParseDigits(_, _, _)
ParseDigits(text, i, acc) ==
    IF i > Len(text) \/ ~IsDigit(text[i]) THEN acc
    ELSE ParseDigits(text, i + 1, acc * 10 + DigitValue(text[i]))

\* parseInt on a text given as its characters: an optional sign and the leading decimal
\* digits; NaN (nan = TRUE) when no digit follows the sign.
parseInt(text) ==
    LET signed == text # <<>> /\ text[1] \in {"-", "+"}
        first == IF signed THEN 2 ELSE 1
    IN IF first > Len(text) \/ ~IsDigit(text[first]) THEN [nan |-> TRUE, value |-> 0]
       ELSE [nan |-> FALSE,
             value |-> IF signed /\ text[1] = "-" THEN 0 - ParseDigits(text, first, 0)
                       ELSE ParseDigits(text, first, 0)]

\* Number.prototype.toString of an integer, as its characters.
RECURSIVE toString(_)
toString(n) ==
    IF n < 0 THEN <<"-">> \o toString(0 - n)
    ELSE IF n < 10 THEN <<DigitChars[n + 1]>>
    ELSE Append(toString(n \div 10), DigitChars[(n % 10) + 1])

\* The texts an input's change event carries.
TypedTexts == {<<>>, <<"5">>, <<"5", "0", "0">>, <<"5", "0", "1">>}

\* The values the slider (min 2, max 50, step 1) hands to onValueChange.
SliderValues == {2, 50}

\* The effect of Sidebar that follows a change of settings.gridWidth or settings.gridHeight.
SyncInputs(old, new, inputs) ==
    IF old.gridWidth # new.gridWidth \/ old.gridHeight # new.gridHeight
    THEN [gridWidthInput |-> toString(new.gridWidth),
          gridHeightInput |-> toString(new.gridHeight)]
    ELSE inputs

InRange(numValue, low, high) ==
    ~numValue.nan /\ numValue.value >= low /\ numValue.value <= high

CInit ==
    /\ csettings = DEFAULT_SETTINGS
    /\ cinputs = [gridWidthInput |-> toString(DEFAULT_SETTINGS.gridWidth),
                  gridHeightInput |-> toString(DEFAULT_SETTINGS.gridHeight)]
    /\ csnapshot = Null
    /\ cprocessing = FALSE
    /\ cedits = 0

CNone ==
    /\ csettings = Null
    /\ cinputs = Null
    /\ csnapshot = Null
    /\ cprocessing = FALSE
    /\ cedits = 0

\* An event of a control, which is disabled while isProcessing.
CEvent ==
    /\ ~cprocessing
    /\ cedits < MaxEdits
    /\ cedits' = cedits + 1
    /\ UNCHANGED <<csnapshot, cprocessing>>

\* updateSettings(newSettings) and the render that follows it.
CUpdateSettings(newSettings, inputs) ==
    /\ csettings' = newSettings
    /\ cinputs' = SyncInputs(csettings, newSettings, inputs)

handleGridWidthChange ==
    /\ CEvent
    /\ \E value \in TypedTexts :
          LET numValue == parseInt(value)
              inputs == [cinputs EXCEPT !.gridWidthInput = value]
          IN IF InRange(numValue, 10, 500)
             THEN CUpdateSettings([csettings EXCEPT !.gridWidth = numValue.value], inputs)
             ELSE CUpdateSettings(csettings, inputs)

handleGridHeightChange ==
    /\ CEvent
    /\ \E value \in TypedTexts :
          LET numValue == parseInt(value)
              inputs == [cinputs EXCEPT !.gridHeightInput = value]
          IN IF InRange(numValue, 10, 500)
             THEN CUpdateSettings([csettings EXCEPT !.gridHeight = numValue.value], inputs)
             ELSE CUpdateSettings(csettings, inputs)

\* onBlur of the two grid inputs of Sidebar.
GridWidthBlur ==
    /\ CEvent
    /\ cinputs' = IF InRange(parseInt(cinputs.gridWidthInput), 10, 500) THEN cinputs
                  ELSE [cinputs EXCEPT !.gridWidthInput = toString(csettings.gridWidth)]
    /\ UNCHANGED csettings

GridHeightBlur ==
    /\ CEvent
    /\ cinputs' = IF InRange(parseInt(cinputs.gridHeightInput), 10, 500) THEN cinputs
                  ELSE [cinputs EXCEPT !.gridHeightInput = toString(csettings.gridHeight)]
    /\ UNCHANGED csettings

\* onChange of the Max Colors input (the same code in Sidebar and in ControlPanel).
MaxColorsChange ==
    /\ CEvent
    /\ \E text \in TypedTexts :
          LET value == parseInt(text)
          IN IF InRange(value, 2, 50)
             THEN CUpdateSettings([csettings EXCEPT !.maxColors = value.value], cinputs)
             ELSE UNCHANGED <<csettings, cinputs>>

\* onValueChange of the Max Colors slider.
MaxColorsSlide ==
    /\ CEvent
    /\ \E value \in SliderValues :
          CUpdateSettings([csettings EXCEPT !.maxColors = value], cinputs)

\* A variant of the grid inputs of ControlPanel that clamps to the range of the input.
PanelGridValueClamped(text) ==
    LET numValue == parseInt(text)
    IN IF numValue.nan \/ numValue.value = 0 THEN 10
       ELSE Max2(10, Min2(500, numValue.value))

\* parseInt(e.target.value) || 10 of the grid inputs of ControlPanel.
PanelGridValue(text) ==
    LET numValue == parseInt(text)
    IN IF numValue.nan \/ numValue.value = 0 THEN 10 ELSE numValue.value

PanelGridWidthChange ==
    /\ CEvent
    /\ \E text \in TypedTexts :
          CUpdateSettings([csettings EXCEPT !.gridWidth = PanelGridValue(text)], cinputs)

PanelGridHeightChange ==
    /\ CEvent
    /\ \E text \in TypedTexts :
          CUpdateSettings([csettings EXCEPT !.gridHeight = PanelGridValue(text)], cinputs)

\* generatePattern on a loaded image, as the settings see it: the call reads the settings
\* and sets isProcessing, and writes no setting afterwards.
CGenerate ==
    /\ ~cprocessing
    /\ csnapshot' = csettings
    /\ cprocessing' = TRUE
    /\ UNCHANGED <<csettings, cinputs, cedits>>

\* The last set of generatePattern, or the one of its catch block.
CFinished ==
    /\ cprocessing
    /\ cprocessing' = FALSE
    /\ UNCHANGED <<csettings, cinputs, csnapshot, cedits>>

(***************************************************************************)
(* The project store (projectStore.ts).  createdAt and updatedAt are left  *)
(* out of a project; a null currentProjectId is the string NullId, which   *)
(* generateId never returns.                                               *)
(***************************************************************************)
MaxProjects == 3   \* projects in the list

NullId == "null"

\* The ids generateId returns.  Nothing in the store keeps it from returning an id twice.
ProjectIds == {"project_1", "project_2", "project_3"}

\* The name arguments: "" is a call without a name.
ProjectNames == {"", "Mine"}

\* `Pattern ${projectNumber}` for the project numbers a list of this model can give.
DefaultProjectNames ==
    <<"Pattern 1", "Pattern 2", "Pattern 3", "Pattern 4", "Pattern 5", "Pattern 6">>

getDefaultProjectName(projectNumber) == DefaultProjectNames[projectNumber]

Project(id, name) == [id |-> id, name |-> name]

JInit ==
    /\ jprojects = <<>>
    /\ jcurrent = NullId

JNone == JInit

\* createProject with the id generateId returned.
createProject(id, name) ==
    LET projectNumber == Len(jprojects) + 1
        newProject == Project(id, IF name # "" THEN name
                                  ELSE getDefaultProjectName(projectNumber))
    IN /\ Len(jprojects) < MaxProjects
       /\ jprojects' = Append(jprojects, newProject)
       /\ jcurrent' = id

\* deleteProject that leaves currentProjectId as it is.
deleteProjectKeepsCurrent(id) ==
    /\ jprojects' = SelectSeq(jprojects, LAMBDA p : p.id # id)
    /\ jcurrent' = jcurrent

deleteProject(id) ==
    LET newProjects == SelectSeq(jprojects, LAMBDA p : p.id # id)
        newCurrentId == IF jcurrent = id
                        THEN IF Len(newProjects) > 0 THEN newProjects[1].id ELSE NullId
                        ELSE jcurrent
    IN /\ jprojects' = newProjects
       /\ jcurrent' = newCurrentId

renameProject(id, name) ==
    /\ jprojects' = [i \in 1..Len(jprojects) |->
                        IF jprojects[i].id = id THEN [jprojects[i] EXCEPT !.name = name]
                        ELSE jprojects[i]]
    /\ UNCHANGED jcurrent

switchProject(id) ==
    /\ jcurrent' = IF \E i \in 1..Len(jprojects) : jprojects[i].id = id THEN id ELSE jcurrent
    /\ UNCHANGED jprojects

(***************************************************************************)
(* Specifications, one per component.                                      *)
(***************************************************************************)
InitQuantize == QInit /\ MNone /\ GNone /\ SNone /\ RNone /\ PNone /\ CNone /\ JNone

QuantizeCall == (\E r \in Runs : QCall(r)) /\ UNCHANGED <<mvars, gvars, svars, rvars, pvars, cvars, jvars>>
QuantizeSplit == (\E r \in Runs : QSplit(r)) /\ UNCHANGED <<mvars, gvars, svars, rvars, pvars, cvars, jvars>>
QuantizeResume == (\E r \in Runs : QResume(r)) /\ UNCHANGED <<mvars, gvars, svars, rvars, pvars, cvars, jvars>>
QuantizeFinish == (\E r \in Runs : QFinish(r)) /\ UNCHANGED <<mvars, gvars, svars, rvars, pvars, cvars, jvars>>

NextQuantize == QuantizeCall \/ QuantizeSplit \/ QuantizeResume \/ QuantizeFinish

SpecQuantize == InitQuantize /\ [][NextQuantize]_vars

InitMatch == QNone /\ MInit /\ GNone /\ SNone /\ RNone /\ PNone /\ CNone /\ JNone

MatchCall == (\E c \in CallColors, useCache \in BOOLEAN : MatchColor(c, useCache))
                 /\ UNCHANGED <<qvars, gvars, svars, rvars, pvars, cvars, jvars>>
MatchClear == ClearMatchCache /\ UNCHANGED <<qvars, gvars, svars, rvars, pvars, cvars, jvars>>

NextMatch == MatchCall \/ MatchClear

SpecMatch == InitMatch /\ [][NextMatch]_vars

InitGrid == QNone /\ MNone /\ GInit /\ SNone /\ RNone /\ PNone /\ CNone /\ JNone

GridCall == GCall /\ UNCHANGED <<qvars, mvars, svars, rvars, pvars, cvars, jvars>>
GridYieldAgain == GYieldAgain /\ UNCHANGED <<qvars, mvars, svars, rvars, pvars, cvars, jvars>>
GridNextChunk == GNextChunk /\ UNCHANGED <<qvars, mvars, svars, rvars, pvars, cvars, jvars>>
GridReturn == GReturn /\ UNCHANGED <<qvars, mvars, svars, rvars, pvars, cvars, jvars>>
GridSyncCall == GSyncCall /\ UNCHANGED <<qvars, mvars, svars, rvars, pvars, cvars, jvars>>

NextGrid == GridCall \/ GridYieldAgain \/ GridNextChunk \/ GridReturn \/ GridSyncCall

SpecGrid == InitGrid /\ [][NextGrid]_vars

InitSymbols == QNone /\ MNone /\ GNone /\ SInit /\ RNone /\ PNone /\ CNone /\ JNone

SymbolsAssign == SAssign /\ UNCHANGED <<qvars, mvars, gvars, rvars, pvars, cvars, jvars>>
SymbolsHasUnique == SHasUnique /\ UNCHANGED <<qvars, mvars, gvars, rvars, pvars, cvars, jvars>>

NextSymbols == SymbolsAssign \/ SymbolsHasUnique

SpecSymbols == InitSymbols /\ [][NextSymbols]_vars

InitRecolor == QNone /\ MNone /\ GNone /\ SNone /\ RInit /\ PNone /\ CNone /\ JNone

RecolorCall == RCall /\ UNCHANGED <<qvars, mvars, gvars, svars, pvars, cvars, jvars>>
RecolorYieldAgain == RYieldAgain /\ UNCHANGED <<qvars, mvars, gvars, svars, pvars, cvars, jvars>>
RecolorResume == RResume /\ UNCHANGED <<qvars, mvars, gvars, svars, pvars, cvars, jvars>>

NextRecolor == RecolorCall \/ RecolorYieldAgain \/ RecolorResume

SpecRecolor == InitRecolor /\ [][NextRecolor]_vars

\* The matcher's catalog and cache are those of the store's pipeline.
InitStore ==
    /\ QNone /\ GNone /\ SNone /\ RNone /\ PInit /\ CNone /\ JNone
    /\ catalog = StoreCatalog /\ matchCache = EmptyMap /\ mcall = NoCall

NextStore ==
    \/ StoreLoadImage \/ StoreImageLoaded \/ StoreUpdateSettings
    \/ StoreGenerate \/ StoreYieldAgain \/ StoreMatch \/ StoreAssign \/ StoreRecolor
    \/ StoreResize \/ StoreMap \/ StorePublish
    \/ StoreRemoveColor \/ StoreReplaceColor

SpecStore == InitStore /\ [][NextStore]_vars

\* The two chunked loops: a behaviour follows one call of applyQuantizedColors or one call
\* of mapImageToGridChunked.
InitChunks == (QNone /\ MNone /\ GNone /\ SNone /\ RChunkInit /\ PNone /\ CNone /\ JNone) \/ InitGrid

NextChunks ==
    \/ RecolorCall \/ RecolorYieldAgain \/ RecolorResume
    \/ GridCall \/ GridYieldAgain \/ GridNextChunk \/ GridReturn \/ GridSyncCall

SpecChunks == InitChunks /\ [][NextChunks]_vars

COthers == <<qvars, mvars, gvars, svars, rvars, pvars, jvars>>

InitSettings == QNone /\ MNone /\ GNone /\ SNone /\ RNone /\ PNone /\ CInit /\ JNone

SettingsGridWidthChange == handleGridWidthChange /\ UNCHANGED COthers
SettingsGridHeightChange == handleGridHeightChange /\ UNCHANGED COthers
SettingsGridWidthBlur == GridWidthBlur /\ UNCHANGED COthers
SettingsGridHeightBlur == GridHeightBlur /\ UNCHANGED COthers
SettingsMaxColorsChange == MaxColorsChange /\ UNCHANGED COthers
SettingsMaxColorsSlide == MaxColorsSlide /\ UNCHANGED COthers
SettingsPanelGridWidthChange == PanelGridWidthChange /\ UNCHANGED COthers
SettingsPanelGridHeightChange == PanelGridHeightChange /\ UNCHANGED COthers
SettingsGenerate == CGenerate /\ UNCHANGED COthers
SettingsFinished == CFinished /\ UNCHANGED COthers

NextSettings ==
    \/ SettingsGridWidthChange \/ SettingsGridHeightChange
    \/ SettingsGridWidthBlur \/ SettingsGridHeightBlur
    \/ SettingsMaxColorsChange \/ SettingsMaxColorsSlide
    \/ SettingsPanelGridWidthChange \/ SettingsPanelGridHeightChange
    \/ SettingsGenerate \/ SettingsFinished

SpecSettings == InitSettings /\ [][NextSettings]_vars

MaxYields == 6   \* awaits of yieldToBrowser a call goes through between two stages

\* The call r is at the head of the timers, at the await numbered n from the end of those
\* that follow the stage pc.
AwaitPending(r, pc, n) ==
    /\ pqueue # <<>>
    /\ Head(pqueue) = r
    /\ prun[r].pc = pc
    /\ prun[r].yields = n

\* yieldToBrowser resolves after at most 50 ms, whatever requestAnimationFrame does: no
\* call stays at the same await for ever.
AwaitsResolve ==
    \A r \in Runs : \A n \in 1..MaxYields :
        \A pc \in {"quantized", "matched", "assigned", "recolored", "resized", "mapped"} :
            []<>(~AwaitPending(r, pc, n))

\* The store once loadImage has loaded an image, with one more call of the store's other
\* operations to come.
PLoaded ==
    /\ \E originalImage \in StoreImages, settings \in StoreSettings :
          store = [originalImage |-> originalImage, processedImage |-> Null,
                   quantizedColors |-> <<>>, settings |-> settings, dmcPalette |-> <<>>,
                   pattern |-> Null, isProcessing |-> FALSE, error |-> NoError]
    /\ prun = [r \in Runs |-> NewRun]
    /\ pqueue = <<>>
    /\ pload = NoLoad
    /\ pmobile \in BOOLEAN
    /\ pcalls = MaxCalls - 1

InitStoreLive ==
    /\ QNone /\ GNone /\ SNone /\ RNone /\ PLoaded /\ CNone /\ JNone
    /\ catalog = StoreCatalog /\ matchCache = EmptyMap /\ mcall = NoCall

SpecStoreLive == InitStoreLive /\ [][NextStore]_vars /\ AwaitsResolve

\* loadImage, generatePattern and reset in any interleaving.
NextStoreReset ==
    \/ StoreLoadImage \/ StoreImageLoaded \/ StoreReset
    \/ StoreGenerate \/ StoreYieldAgain \/ StoreMatch \/ StoreAssign \/ StoreRecolor
    \/ StoreResize \/ StoreMap \/ StorePublish

SpecStoreReset == InitStore /\ [][NextStoreReset]_vars

JOthers == <<qvars, mvars, gvars, svars, rvars, pvars, cvars>>

InitProjects == QNone /\ MNone /\ GNone /\ SNone /\ RNone /\ PNone /\ CNone /\ JInit

ProjectsCreate ==
    /\ \E id \in ProjectIds, name \in ProjectNames : createProject(id, name)
    /\ UNCHANGED JOthers

ProjectsDelete ==
    /\ \E id \in ProjectIds : deleteProject(id)
    /\ UNCHANGED JOthers

ProjectsRename ==
    /\ \E id \in ProjectIds, name \in ProjectNames : renameProject(id, name)
    /\ UNCHANGED JOthers

ProjectsSwitch ==
    /\ \E id \in ProjectIds : switchProject(id)
    /\ UNCHANGED JOthers

NextProjects == ProjectsCreate \/ ProjectsDelete \/ ProjectsRename \/ ProjectsSwitch

SpecProjects == InitProjects /\ [][NextProjects]_vars

(***************************************************************************)
(* Properties of the quantizer, checked under SpecQuantize.                *)
(***************************************************************************)
Range(seq) == {seq[i] : i \in 1..Len(seq)}

NoDuplicates(seq) == \A i, j \in 1..Len(seq) : i # j => seq[i] # seq[j]

Population == extractPixels(qimage, qrate)

\* What C1 asks of run r: it does not fail and returns between 1 and k colours.
ReturnsUpToK(r) ==
    /\ qpc[r] # "failed"
    /\ qpc[r] = "done" => Len(qresult[r]) >= 1 /\ Len(qresult[r]) <= qk

\* C1 as stated: for every k >= 1 and every non-empty sampled population, quantizeColors
\* returns at least 1 and at most k colours.
C1_AsStated ==
    \A r \in Runs : (qk >= 1 /\ Population # <<>>) => ReturnsUpToK(r)

\* C1 amended: for every k with 1 <= k <= 255 and every non-empty sampled population,
\* quantizeColors returns at least 1 and at most k colours.
C1_UpToKColors ==
    \A r \in Runs : (qk >= 1 /\ qk <= KLimit /\ Population # <<>>) => ReturnsUpToK(r)

\* A run that split boxes until there were exactly k of them, with colours left to split.
C1_Witness ==
    \E r \in Runs : qpc[r] = "done" /\ qk >= 2 /\ qn[r] > qk /\ Len(qresult[r]) = qk

\* What C2 asks of run r: it does not fail and returns each distinct colour exactly once.
ReturnsDistinct(r) ==
    /\ qpc[r] # "failed"
    /\ qpc[r] = "done" =>
         NoDuplicates(qresult[r]) /\ Range(qresult[r]) = Range(Population)

\* C2 as stated: if k is at least the number of distinct colours of the population,
\* quantizeColors returns exactly the distinct colours, each once.
C2_AsStated ==
    \A r \in Runs :
        (Population # <<>> /\ qk >= Cardinality(Range(Population))) => ReturnsDistinct(r)

\* C2 amended: if k is at least the number of distinct colours of the population and at
\* most 255, quantizeColors returns exactly the distinct colours, each once.
C2_ExactlyDistinct ==
    \A r \in Runs :
        (Population # <<>> /\ qk >= Cardinality(Range(Population)) /\ qk <= KLimit)
            => ReturnsDistinct(r)

\* A run that went through the split loop (k below the pixel count) down to one colour per
\* box, on a population that repeats a colour.
C2_Witness ==
    \E r \in Runs :
        /\ qpc[r] = "done"
        /\ qk < Len(Population)
        /\ qk >= qn[r]
        /\ qn[r] >= 2
        /\ Len(qresult[r]) = qn[r]

Ended(r) == qpc[r] \in {"done", "failed"}

C4_RejectsBadInput ==
    \A r \in Runs :
        (qk <= 0 \/ Population = <<>>) =>
            /\ qpc[r] \in {"idle", "failed"}
            /\ qresult[r] = <<>>
            /\ qpc[r] = "failed" => qerror[r] # ""

\* A call with k = 0 on a non-empty image has been rejected.
C4_Witness ==
    \E r \in Runs : qpc[r] = "failed" /\ qk = 0 /\ Population # <<>>

(***************************************************************************)
(* Properties of the matcher, checked under SpecMatch.                     *)
(***************************************************************************)
\* dmc is the catalog entry nearest to color, the earliest of the nearest ones.
IsFirstNearest(dmc, color, allDMCColors) ==
    LET d == [i \in 1..Len(allDMCColors) |-> deltaE2000(color, allDMCColors[i].rgb)]
    IN \E i \in 1..Len(allDMCColors) :
          /\ allDMCColors[i] = dmc
          /\ \A j \in 1..Len(allDMCColors) : d[i] <= d[j]
          /\ \A j \in 1..(i - 1) : d[j] > d[i]

\* C5: matchColorToDMC(c) returns a catalog entry at minimal distance from c, the earliest
\* in catalog order among equidistant ones, whether computed or served from the cache,
\* after any sequence of match and clearMatchCache calls.
C5_FirstNearest ==
    catalog # <<>> =>
        /\ mcall.status = "returned" => IsFirstNearest(mcall.ret, mcall.color, catalog)
        /\ \A key \in DOMAIN matchCache :
              IsFirstNearest(matchCache[key], RGB(key[1], key[2], key[3]), catalog)

\* A call served from the cache for a colour that two catalog entries are equally near to.
C5_Witness ==
    /\ mcall.status = "returned"
    /\ mcall.cached
    /\ \E i, j \in 1..Len(catalog) :
          /\ i < j
          /\ catalog[i] = mcall.ret
          /\ deltaE2000(mcall.color, catalog[i].rgb) = deltaE2000(mcall.color, catalog[j].rgb)

\* C6: matching the RGB value of the entry the previous call returned returns that entry
\* again, also when several catalog entries carry that RGB value.
C6_Idempotent ==
    (catalog # <<>> /\ mcall.status = "returned" /\ mcall.prev # Undefined
        /\ mcall.color = mcall.prev.rgb)
            => mcall.ret = mcall.prev

\* match(match(c).rgb) has run for a c that is no catalog colour, and the entry shares its
\* RGB value with another entry.
C6_Witness ==
    /\ mcall.status = "returned"
    /\ mcall.prev # Undefined
    /\ mcall.color = mcall.prev.rgb
    /\ mcall.ret = mcall.prev
    /\ \E i \in 1..Len(catalog) : catalog[i] # mcall.ret /\ catalog[i].rgb = mcall.ret.rgb

\* C7: matching against an empty catalog fails with an error: no value is returned and
\* nothing is stored in the match cache.
C7_EmptyCatalogFails ==
    catalog = <<>> =>
        /\ mcall.status \in {"none", "threw"}
        /\ matchCache = EmptyMap

(***************************************************************************)
(* Properties of the grid mappers, checked under SpecGrid.                 *)
(***************************************************************************)
\* grid has gridHeight rows of gridWidth cells, each carrying its own coordinates.
WellShaped(grid) ==
    /\ Len(grid) = ggh
    /\ \A y \in 1..Len(grid) :
          /\ Len(grid[y]) = ggw
          /\ \A x \in 1..Len(grid[y]) : grid[y][x].x = x - 1 /\ grid[y][x].y = y - 1

ValidGridCall == ggw > 0 /\ ggh > 0 /\ gpalette # <<>>

\* C8: for positive gridWidth and gridHeight (and a palette that is not empty) and any
\* source size, both mappers return gridHeight rows of gridWidth cells, the cell at row y,
\* column x carrying (x, y), in direct mode and in area-average mode.
C8_GridShape ==
    ValidGridCall =>
        /\ gpc # "threw"
        /\ gpc = "done" => WellShaped(ggrid)
        /\ gsync.status # "threw"
        /\ gsync.status = "returned" => WellShaped(gsync.grid)

\* Both mappers returned a grid wider and higher than its source, in area-average mode.
C8_Witness ==
    /\ gpc = "done"
    /\ gsync.status = "returned"
    /\ ggw > gimage.width
    /\ ggh > gimage.height
    /\ gimage.width > 1
    /\ Len(ggrid) = ggh

\* C9: grid mapping fails with an error and returns no grid when gridWidth <= 0, when
\* gridHeight <= 0 and when the palette is empty, in mapImageToGridChunked as well as in
\* mapImageToGrid.
C9_RejectsBadArguments ==
    (ggw <= 0 \/ ggh <= 0 \/ gpalette = <<>>) =>
        /\ gpc \in {"idle", "threw"}
        /\ gsync.status \in {"none", "threw"}

IsUniform(imageData) ==
    \A i \in 1..Len(imageData.data) : imageData.data[i] = imageData.data[1]

\* dmc is the first palette entry at minimal squared RGB distance from color.
IsFirstNearestRGB(dmc, color, dmcPalette) ==
    \E i \in 1..Len(dmcPalette) :
        /\ dmcPalette[i] = dmc
        /\ \A j \in 1..Len(dmcPalette) :
              DistanceSq(color, dmcPalette[i].rgb) <= DistanceSq(color, dmcPalette[j].rgb)
        /\ \A j \in 1..(i - 1) :
              DistanceSq(color, dmcPalette[j].rgb) > DistanceSq(color, dmcPalette[i].rgb)

\* C10: mapping an image whose pixels all have the colour u, of any size onto any positive
\* grid, binds every cell to the nearest-palette match of u (nearest in the metric of the
\* mapper: squared RGB distance in mapImageToGridChunked, deltaE2000 in mapImageToGrid).
C10_UniformImage ==
    (ValidGridCall /\ IsUniform(gimage)) =>
        /\ gpc = "done" =>
              \A y \in 1..Len(ggrid) : \A x \in 1..Len(ggrid[y]) :
                  IsFirstNearestRGB(ggrid[y][x].color, gimage.data[1], gpalette)
        /\ gsync.status = "returned" =>
              \A y \in 1..Len(gsync.grid) : \A x \in 1..Len(gsync.grid[y]) :
                  IsFirstNearest(gsync.grid[y][x].color, gimage.data[1], gpalette)

\* Both mappers mapped a uniform grey image by area averaging, with cells that average
\* several source pixels, onto a palette of several entries.
C10_Witness ==
    /\ gpc = "done"
    /\ gsync.status = "returned"
    /\ IsUniform(gimage)
    /\ gimage.data[1] = Grey
    /\ gimage.width > ggw
    /\ ggw >= 1
    /\ Len(ggrid) = ggh
    /\ Len(gpalette) > 1

(***************************************************************************)
(* Properties of the symbol assigner, checked under SpecSymbols.           *)
(***************************************************************************)
\* C11: when the palette has at most as many entries as the symbol table has glyphs (61),
\* assignSymbolsToPalette returns as many entries as it was given, entry i carrying glyph
\* i mod 61 of the table, every entry has a glyph, no two entries have the same glyph, and
\* hasUniqueSymbols returns true for the result; the table's glyphs are pairwise distinct.
C11_UniqueGlyphs ==
    /\ NoDuplicates(getAllSymbols)
    /\ (spc # "idle" /\ Len(spalette) <= getSymbolCount) =>
          /\ Len(sresult) = Len(spalette)
          /\ \A i \in 1..Len(sresult) :
                /\ sresult[i].symbol = getAllSymbols[((i - 1) % getSymbolCount) + 1]
                /\ sresult[i].symbol # NoSymbol
                /\ sresult[i].code = spalette[i].code
          /\ \A i, j \in 1..Len(sresult) : i # j => sresult[i].symbol # sresult[j].symbol
          /\ spc = "checked" => sunique = TRUE

\* A palette of exactly 61 entries that came with older symbols has been assigned and
\* checked.
C11_Witness ==
    /\ spc = "checked"
    /\ Len(spalette) = getSymbolCount
    /\ getSymbolCount = 61
    /\ spalette[1].symbol # NoSymbol
    /\ sunique = TRUE

(***************************************************************************)
(* Properties of applyQuantizedColors, checked under SpecRecolor.          *)
(***************************************************************************)
\* The colour q is the first colour of the list at minimal squared RGB distance from pixel.
IsFirstNearestQuantized(q, pixel, quantizedColors) ==
    \E i \in 1..Len(quantizedColors) :
        /\ quantizedColors[i] = q
        /\ \A j \in 1..Len(quantizedColors) :
              DistanceSq(pixel, quantizedColors[i]) <= DistanceSq(pixel, quantizedColors[j])
        /\ \A j \in 1..(i - 1) :
              DistanceSq(pixel, quantizedColors[j]) > DistanceSq(pixel, quantizedColors[i])

\* What C17 asks of the returned buffer.
RecoloredBuffer ==
    /\ Len(rdata) = rimage.width * rimage.height
    /\ \A j \in 1..Len(rdata) :
          /\ IsFirstNearestQuantized(RGB(rdata[j].r, rdata[j].g, rdata[j].b),
                                     rimage.data[j], rcolors)
          /\ rdata[j].a = rimage.data[j].a

\* C17: when applyQuantizedColors returns (quantizedColors is not empty, or the image has no
\* pixel), the returned image has the input's width and height, every pixel's RGB is the
\* first colour of quantizedColors at minimal squared RGB distance from the input pixel,
\* every alpha value is the input's, and no step of the call modifies the input image.
C17_Recolor ==
    /\ [](rpc = "done" => RecoloredBuffer)
    /\ [][rimage' = rimage]_vars

\* A call on three pixels with different alpha values and a list in which two colours are
\* equally near to the first pixel has returned, and the pixel was changed.
C17_Witness ==
    /\ rpc = "done"
    /\ Len(rimage.data) = 3
    /\ rimage.data[1] = RGBA(0, 0, 127, 255)
    /\ rimage.data[2].a # rimage.data[3].a
    /\ rcolors = <<RGB(0, 0, 0), RGB(0, 0, 254)>>
    /\ rdata[1] = RGBA(0, 0, 0, 255)

(***************************************************************************)
(* Properties of the pattern store, checked under SpecStore.               *)
(***************************************************************************)
Codes(palette) == [i \in 1..Len(palette) |-> palette[i].code]

\* C12: whatever generatePattern, removeColor and replaceColor calls (and loadImage and
\* updateSettings calls between them) have run, a pattern that is not null has every cell's
\* colour code in pattern.palette, and pattern.palette.length = pattern.metadata.colorCount.
C12_PatternConsistent ==
    store.pattern # Null =>
        /\ \A y \in 1..Len(store.pattern.cells) : \A x \in 1..Len(store.pattern.cells[y]) :
              store.pattern.cells[y][x].color.code \in Range(Codes(store.pattern.palette))
        /\ Len(store.pattern.palette) = store.pattern.metadata.colorCount

\* A generated two-colour pattern has lost one colour to removeColor and had the other
\* replaced by thread 820: its cells carry the new code.
C12_Witness ==
    /\ store.pattern # Null
    /\ Len(store.quantizedColors) = 2
    /\ store.pattern.metadata.colorCount = 1
    /\ store.pattern.cells[1][1].color.code = "820"

\* C13: the palette of every pattern generatePattern builds has pairwise distinct DMC codes.
C13_DistinctCodes ==
    \A r \in Runs : prun[r].pc = "done" => NoDuplicates(Codes(Pattern(prun[r]).palette))

\* Messages a stage of the pipeline fails with.
StageErrors ==
    {"k must be greater than 0", "k must be 255 or less", "No pixels extracted from image",
     "IndexSizeError", "Cannot read properties of undefined (reading 'r')",
     "Cannot read properties of undefined (reading 'symbol')"}

Published == <<store.pattern, store.dmcPalette, store.quantizedColors, store.processedImage>>

\* C14: the step in which a stage of a generatePattern call fails stores the failure's
\* message in error, sets isProcessing to false and leaves pattern, dmcPalette,
\* quantizedColors and processedImage as they are; a failed call takes no further step; and
\* no step of a call other than its final publication changes those four fields.
C14_FailureKeepsResults ==
    [][\A r \in Runs :
          /\ (prun[r].pc # "failed" /\ prun'[r].pc = "failed") =>
                /\ store'.error \in StageErrors
                /\ store'.isProcessing = FALSE
                /\ Published' = Published
          /\ prun[r].pc = "failed" => prun'[r] = prun[r]
          /\ (prun'[r] # prun[r] /\ prun'[r].pc # "done") => Published' = Published]_vars

\* The second call has failed in a stage after the first call published its pattern, which is
\* still in the store with the error.
C14_Witness ==
    /\ prun["a"].pc = "done"
    /\ prun["b"].pc = "failed"
    /\ store.pattern = Pattern(prun["a"])
    /\ store.error \in StageErrors
    /\ store.isProcessing = FALSE

\* C15: a call of generatePattern that was in flight when a later call started, and that
\* finishes after the later call has published, leaves the later call's pattern in the store.
C15_NewerRunWins ==
    [][(prun["a"].pc # "done" /\ prun'["a"].pc = "done" /\ prun["b"].pc = "done")
          => store'.pattern = store.pattern]_vars

(***************************************************************************)
(* The matcher's cache size, checked under SpecMatch.                      *)
(***************************************************************************)
\* C16: getMatchCacheSize stays within a fixed capacity whatever distinct colours
\* matchColorToDMC is called on.  A capacity that bounds the cache has to be smaller than
\* the number of distinct colours callers can pass; the one taken here is one less than the
\* number of enumerated input colours, so that the cache may never hold all of them.
C16_CacheBounded == getMatchCacheSize < Cardinality(MatchInputs)

(***************************************************************************)
(* Properties of the splits of the median-cut loop, checked under          *)
(* SpecQuantize.                                                           *)
(***************************************************************************)
\* Run r is about to split a box: the box the next iteration picks.
AboutToSplit(r) == qpc[r] = "running" /\ LoopGoesOn(qboxes[r], qk, qn[r])

NextBox(r) == qboxes[r][BoxToSplit(qboxes[r])]

\* Largest minus smallest value of channel ch among the member colours.
MemberRange(pixels, ch) ==
    LET values == {pixels[i].color[ch] : i \in 1..Len(pixels)}
    IN (CHOOSE hi \in values : \A v \in values : v <= hi)
           - (CHOOSE lo \in values : \A v \in values : lo <= v)

\* The channel with the largest member range, ties in the order r, g, b.
LongestMemberChannel(pixels) ==
    IF MemberRange(pixels, "r") >= MemberRange(pixels, "g")
           /\ MemberRange(pixels, "r") >= MemberRange(pixels, "b") THEN "r"
    ELSE IF MemberRange(pixels, "g") >= MemberRange(pixels, "b") THEN "g" ELSE "b"

\* C18: at every split, the first split of the initial box included, the split channel is
\* the channel with the largest range between the smallest and largest value of the box's
\* member colours, ties broken in the order r, g, b.
C18_SplitsLongestMemberRange ==
    \A r \in Runs :
        AboutToSplit(r) => SplitChannel(NextBox(r)) = LongestMemberChannel(NextBox(r).pixels)

\* Occurrence count of the first m colours of a box.
Cumulative(sorted, m) == TotalWeight(SubSeq(sorted, 1, m))

\* The position at which the cumulative occurrence count reaches half of the total.
WeightedMedian(sorted) ==
    CHOOSE m \in 1..Len(sorted) :
        /\ 2 * Cumulative(sorted, m) >= TotalWeight(sorted)
        /\ \A n \in 1..(m - 1) : 2 * Cumulative(sorted, n) < TotalWeight(sorted)

\* A split index (the length of the left box) that leaves both boxes non-empty.
Clamp(m, len) == Max2(1, Min2(m, len - 1))

\* C19: a box is split at the weighted median: the left box ends at the colour with which
\* the cumulative occurrence count reaches half of the box's total, that colour going left
\* or right, and neither box is left empty.
C19_SplitsAtWeightedMedian ==
    \A r \in Runs :
        AboutToSplit(r) =>
            \A sorted \in SortByChannel(NextBox(r).pixels, SplitChannel(NextBox(r))) :
                Median(sorted) \in {Clamp(WeightedMedian(sorted), Len(sorted)),
                                    Clamp(WeightedMedian(sorted) - 1, Len(sorted))}

(***************************************************************************)
(* The metric of the grid mappers, checked under SpecGrid.                 *)
(***************************************************************************)
\* The colour the chunked mapper looks up for cell (x, y): the source pixel when the image
\* has the grid's size (direct mode), the rounded area average otherwise.
LookupColor(x, y) ==
    IF gimage.width = ggw /\ gimage.height = ggh
    THEN PixelAt(gimage, x, y)
    ELSE LET s == SourceRect(gimage, ggw, ggh, x, y)
         IN AreaAverage(gimage, s.srcX, s.srcY, s.srcWidth, s.srcHeight)

ChunkedCellsFirstNearestRGB ==
    (gpc = "done" /\ ValidGridCall) =>
        \A y \in 1..Len(ggrid) : \A x \in 1..Len(ggrid[y]) :
            IsFirstNearestRGB(ggrid[y][x].color, LookupColor(x - 1, y - 1), gpalette)

SyncCellsFirstNearestRGB ==
    gsync.status = "returned" =>
        \A y \in 1..Len(gsync.grid) : \A x \in 1..Len(gsync.grid[y]) :
            LET s == SourceRect(gimage, ggw, ggh, x - 1, y - 1)
            IN IsFirstNearestRGB(gsync.grid[y][x].color,
                                 averagePixelsInArea(gimage, s.srcX, s.srcY,
                                                     s.srcWidth, s.srcHeight),
                                 gpalette)

StageOrder ==
    <<"idle", "quantized", "matched", "assigned", "recolored", "resized", "mapped", "done">>

StageIndex(pc) == CHOOSE i \in 1..Len(StageOrder) : StageOrder[i] = pc

\* The call r has the results of every stage it has passed.
StageResults(r) ==
    LET run == prun[r]
        After(pc) == run.pc \in {StageOrder[i] : i \in StageIndex(pc)..Len(StageOrder)}
    IN /\ After("quantized") => run.originalImage # Null /\ run.quantizedColors # <<>>
       /\ After("matched") => Len(run.paletteWithSymbols) = Len(run.quantizedColors)
       /\ After("assigned") =>
              \A i \in 1..Len(run.paletteWithSymbols) :
                  run.paletteWithSymbols[i].symbol = getAllSymbols[i]
       /\ After("recolored") =>
              /\ run.processedImage # Null
              /\ run.processedImage.width = run.originalImage.width
       /\ After("resized") =>
              /\ run.resizedImage # Null
              /\ run.resizedImage.width = run.settings.gridWidth
              /\ run.resizedImage.height = run.settings.gridHeight
       /\ After("mapped") => run.grid # <<>> /\ Len(run.grid) = run.settings.gridHeight

\* C21: within one generatePattern call the stages run in the order quantize, match,
\* assign symbols, recolor, resize, grid-map, publish: a call moves only to the next stage,
\* with the results of every earlier stage, or to its catch block; the pattern is set by a
\* call only in the step from "mapped" to "done", from the grid the mapping returned.
C21_StagesInOrder ==
    /\ [](\A r \in Runs : StageResults(r))
    /\ [][\A r \in Runs :
            /\ prun'[r].pc # prun[r].pc =>
                  \/ prun'[r].pc = "failed" /\ prun[r].pc \notin {"done", "returned"}
                  \/ prun'[r].pc = "returned" /\ prun[r].pc = "idle"
                  \/ /\ prun'[r].pc \in {StageOrder[i] : i \in 1..Len(StageOrder)}
                     /\ prun[r].pc \in {StageOrder[i] : i \in 1..Len(StageOrder)}
                     /\ StageIndex(prun'[r].pc) = StageIndex(prun[r].pc) + 1
            /\ (prun' # prun /\ store'.pattern # store.pattern) =>
                  \E p \in Runs :
                      /\ prun[p].pc = "mapped" /\ prun'[p].pc = "done"
                      /\ store'.pattern # Null
                      /\ store'.pattern.cells = prun[p].grid]_vars

\* A call has gone through all seven stages and its pattern is in the store.
C21_Witness ==
    /\ prun["a"].pc = "done"
    /\ store.pattern # Null
    /\ store.pattern.cells = prun["a"].grid
    /\ store.pattern.cells # <<>>

(***************************************************************************)
(* The chunks of the two chunked loops, checked under SpecChunks.          *)
(***************************************************************************)
\* The buffer applyQuantizedColors works on, before and after a step.
RecolorBuffer == IF rpc = "idle" THEN rimage.data ELSE rdata

\* A step of applyQuantizedColors that runs a chunk: the chunk starts at pixel 0 in the
\* call itself and where the last chunk ended after the last await of that chunk has
\* resolved, writes only the pixels of its own range of at most chunkSize pixels, and ends
\* at an await.
RecolorChunkStep ==
    LET chunkSize == RecolorChunkSize(rmobile)
    IN /\ (rpc = "idle" /\ rpc' = "yield") => ri' = 0
       /\ (rpc # "idle" /\ (rdata' # rdata \/ ri' # ri)) =>
             /\ rpc = "yield" /\ ryields = 1
             /\ ri' = ri + chunkSize
       /\ (rpc' = "yield" /\ (rpc = "idle" \/ ri' # ri)) =>
             /\ ryields' >= 1
             /\ Len(rdata') = Len(rimage.data)
             /\ \A n \in 1..Len(rdata') :
                   rdata'[n] # RecolorBuffer[n] => (n > ri' /\ n <= ri' + chunkSize)

\* A step of mapImageToGridChunked that runs a chunk: the chunk starts at row 0 in the call
\* itself and where the last chunk ended after the last await of that chunk has resolved,
\* appends the rows of its own range of at most chunkSize rows to the rows already there,
\* and ends at an await.
GridChunkStep ==
    /\ (gpc = "idle" /\ gpc' = "yield") => gstartY' = 0
    /\ (gpc # "idle" /\ (ggrid' # ggrid \/ gstartY' # gstartY)) =>
          /\ gpc = "yield" /\ gyields = 1
          /\ gstartY' = gstartY + GChunkSize
    /\ (gpc' = "yield" /\ (gpc = "idle" \/ gstartY' # gstartY)) =>
          /\ gyields' >= 1
          /\ Len(ggrid) = gstartY'
          /\ Len(ggrid') = Min2(gstartY' + GChunkSize, ggh)
          /\ SubSeq(ggrid', 1, Len(ggrid)) = ggrid
          /\ \A y \in (Len(ggrid) + 1)..Len(ggrid') :
                \A x \in 1..Len(ggrid'[y]) : ggrid'[y][x].y = y - 1

\* C22: applyQuantizedColors and mapImageToGridChunked work in chunks of bounded size (at
\* most 50000 pixels, at most 50 rows) taken in ascending order of pixel index and of row
\* index, and between the end of a chunk and the start of the next at least one await of
\* yieldToBrowser is pending and has to resolve.
C22_ChunksInOrderWithYields ==
    /\ [](/\ RecolorChunkSize(rmobile) <= 50000
          /\ GChunkSize <= 50
          /\ rpc = "yield" => ryields >= 1
          /\ gpc = "yield" => gyields >= 1)
    /\ [][RecolorChunkStep /\ GridChunkStep]_vars

\* The second chunk of applyQuantizedColors has run on an image of one pixel more than a
\* chunk and has recoloured that pixel.
C22_Witness ==
    /\ rpc = "yield"
    /\ ri = RecolorChunkSize(rmobile)
    /\ Len(rdata) = ri + 1
    /\ rdata[ri + 1] # rimage.data[ri + 1]
    /\ rdata[1] # rimage.data[1]

\* The second chunk of mapImageToGridChunked has run on a grid of one row more than a chunk.
C22_GridSecondChunk ==
    /\ gpc = "yield"
    /\ gstartY = GChunkSize
    /\ Len(ggrid) = gstartY + 1

(***************************************************************************)
(* The settings a run starts with, checked under SpecSettings.             *)
(***************************************************************************)
\* C23: the settings a call of generatePattern reads satisfy 2 <= maxColors <= 50 and
\* 10 <= gridWidth, gridHeight <= 500, after any sequence of events of the settings
\* controls.
C23_SnapshotInRange ==
    csnapshot # Null =>
        /\ csnapshot.maxColors >= 2 /\ csnapshot.maxColors <= 50
        /\ csnapshot.gridWidth >= 10 /\ csnapshot.gridWidth <= 500
        /\ csnapshot.gridHeight >= 10 /\ csnapshot.gridHeight <= 500

(***************************************************************************)
(* Termination of generatePattern, checked under SpecStoreLive.            *)
(***************************************************************************)
RunEnded(r) == prun[r].pc \in {"done", "failed"}

\* C24: every call of generatePattern that starts with a loaded image ends, when every
\* await of yieldToBrowser is resumed: it either publishes its pattern or sets the error of
\* its catch block, and the step that ends it leaves isProcessing false; the split loop of
\* the quantizer has ended, with at most maxColors boxes, before the call awaits for the
\* first time.
C24_RunsEnd ==
    /\ \A r \in Runs : InFlight(r) ~> RunEnded(r)
    /\ [](\A r \in Runs : prun[r].yields <= MaxYields)
    /\ [](\A r \in Runs :
            prun[r].pc \notin {"idle", "returned", "failed"} =>
                /\ Len(prun[r].quantizedColors) >= 1
                /\ Len(prun[r].quantizedColors) <= prun[r].settings.maxColors)
    /\ [][\A r \in Runs :
            (~RunEnded(r) /\ RunEnded(r)') =>
                /\ store'.isProcessing = FALSE
                /\ prun'[r].pc = "done" => store'.pattern = Pattern(prun[r])
                /\ prun'[r].pc = "failed" => store'.error # NoError]_vars

\* Two overlapping calls have both ended, one with its pattern and one in its catch block.
C24_Witness ==
    /\ prun["a"].pc = "failed"
    /\ prun["a"].settings # Null
    /\ prun["b"].pc = "done"
    /\ store.isProcessing = FALSE

(***************************************************************************)
(* The boxes of the split loop, checked under SpecQuantize.                *)
(***************************************************************************)
\* The distinct colours of the population of a run, and the colours of box i.
PopulationColors == {p.color : p \in Range(ColorFreq(extractPixels(qimage, qrate)))}

BoxColors(r, i) == {p.color : p \in Range(qboxes[r][i].pixels)}

InLoop(r) == qpc[r] \in {"running", "yield"}

\* C25: at every iteration of the split loop the boxes partition the distinct colours of
\* the population: no box is empty, no box holds a colour twice, every distinct colour is
\* in exactly one box, and each split raises the number of boxes by exactly one.
C25_BoxesPartition ==
    /\ [](\A r \in Runs : InLoop(r) =>
            /\ \A i \in 1..Len(qboxes[r]) :
                  /\ qboxes[r][i].pixels # <<>>
                  /\ Cardinality(BoxColors(r, i)) = Len(qboxes[r][i].pixels)
            /\ \A c \in PopulationColors :
                  Cardinality({i \in 1..Len(qboxes[r]) : c \in BoxColors(r, i)}) = 1
            /\ \A i \in 1..Len(qboxes[r]) : BoxColors(r, i) \subseteq PopulationColors)
    /\ [][\A r \in Runs :
            (InLoop(r) /\ qboxes'[r] # qboxes[r]) =>
                Len(qboxes'[r]) = Len(qboxes[r]) + 1]_vars

\* A run is in the loop with three boxes, after two splits.
C25_Witness ==
    /\ InLoop("a")
    /\ Len(qboxes["a"]) = 3
    /\ Cardinality(PopulationColors) > 3

(***************************************************************************)
(* The source rectangles of area averaging, checked under SpecGrid.        *)
(***************************************************************************)
\* Pixels of the source rectangle of cell (x, y) that lie inside the image.
PixelsInRect(x, y) ==
    LET s == SourceRect(gimage, ggw, ggh, x, y)
        endX == Min2(s.srcX + s.srcWidth, gimage.width)
        endY == Min2(s.srcY + s.srcHeight, gimage.height)
    IN {<<sx, sy>> \in (0..(gimage.width - 1)) \X (0..(gimage.height - 1)) :
            sx >= s.srcX /\ sx < endX /\ sy >= s.srcY /\ sy < endY}

\* C26: for every source of width and height at least 1 and every positive grid size, a
\* grid larger than the source included, the clamped source rectangle of every cell holds
\* at least one pixel: count is never 0 when the average divides by it, in either mapper.
C26_RectNeverEmpty ==
    (gpc # "idle" /\ ggw > 0 /\ ggh > 0 /\ gimage.width >= 1 /\ gimage.height >= 1) =>
        \A x \in 0..(ggw - 1) : \A y \in 0..(ggh - 1) :
            LET s == SourceRect(gimage, ggw, ggh, x, y)
            IN /\ PixelsInRect(x, y) # {}
               /\ AreaAverage(gimage, s.srcX, s.srcY, s.srcWidth, s.srcHeight) # NaNColor

\* mapImageToGridChunked has averaged its way through a grid that is larger than the
\* source in both directions.
C26_Witness ==
    /\ gpc = "done"
    /\ gpalette # <<>>
    /\ ggw > gimage.width
    /\ ggh > gimage.height
    /\ gimage.width >= 1
    /\ Len(ggrid) = ggh

(***************************************************************************)
(* isProcessing during overlapping calls, checked under SpecStore.         *)
(***************************************************************************)
\* C27: isProcessing is true in every state in which a call of generatePattern is in
\* flight, two overlapping calls included: it is false only when no call is in flight.
C27_ProcessingWhileInFlight ==
    (\E r \in Runs : InFlight(r)) => store.isProcessing = TRUE

\* The first of two overlapping calls has published and the second is still in flight.
C27_Overlap ==
    /\ prun["a"].pc = "done"
    /\ InFlight("b")
    /\ pload = NoLoad
    /\ store.isProcessing = FALSE

(***************************************************************************)
(* The pattern and the loaded image, checked under SpecStoreReset.         *)
(***************************************************************************)
\* C28: under any interleaving of loadImage, generatePattern and reset, a pattern that is
\* not null comes with an originalImage that is not null, and it is the pattern a finished
\* call of generatePattern built from the image that is loaded now.
C28_PatternOfLoadedImage ==
    store.pattern # Null =>
        /\ store.originalImage # Null
        /\ \E r \in Runs : /\ prun[r].pc = "done"
                            /\ store.pattern = Pattern(prun[r])
                            /\ prun[r].originalImage = store.originalImage

\* A pattern in the store after reset has cleared the image under a call in flight.
C28_PatternWithoutImage ==
    /\ store.pattern # Null
    /\ store.originalImage = Null

\* A pattern in the store that was built from the image loaded before the present one.
C28_PatternOfOtherImage ==
    /\ store.pattern # Null
    /\ store.originalImage # Null
    /\ store.pattern.metadata.originalWidth # store.originalImage.width

(***************************************************************************)
(* removeColor, checked under SpecStore.                                   *)
(***************************************************************************)
\* The codes of the cells of a pattern.
CellCodes(pattern) ==
    {pattern.cells[y][x].color.code :
        y \in 1..Len(pattern.cells), x \in 1..Len(pattern.cells[1])}

PaletteCodes(palette) == {palette[i].code : i \in 1..Len(palette)}

\* C29: removeColor(code) on a pattern whose palette has at least two entries completes
\* without error and leaves a non-empty palette, and no palette entry and no cell of the
\* pattern has the removed code; with no pattern or a palette of at most one entry it sets
\* the error 'Cannot remove the last color' and changes neither pattern nor palette.
C29_RemoveColor ==
    \A dmcCode \in StoreCodes :
        LET call == RemoveColorCall(store, dmcCode)
        IN IF store.pattern # Null /\ Len(store.dmcPalette) >= 2
           THEN /\ ~call.threw
                /\ call.state.error = store.error
                /\ call.state.dmcPalette # <<>>
                /\ call.state.pattern.palette # <<>>
                /\ dmcCode \notin PaletteCodes(call.state.dmcPalette)
                /\ dmcCode \notin PaletteCodes(call.state.pattern.palette)
                /\ dmcCode \notin CellCodes(call.state.pattern)
           ELSE /\ ~call.threw
                /\ call.state.error = "Cannot remove the last color"
                /\ call.state.pattern = store.pattern
                /\ call.state.dmcPalette = store.dmcPalette

\* A palette of two entries that have the same code, which removeColor empties.
C29_TwoEntriesOneCode ==
    /\ store.pattern # Null
    /\ Len(store.dmcPalette) = 2
    /\ store.dmcPalette[1].code = store.dmcPalette[2].code
    /\ store.dmcPalette[1].code \in StoreCodes

(***************************************************************************)
(* currentProjectId, checked under SpecProjects.                           *)
(***************************************************************************)
\* C30: after any sequence of createProject, deleteProject, renameProject and
\* switchProject, currentProjectId is null or the id of a project of the list, and it is
\* null exactly when the list is empty.
C30_CurrentProjectInList ==
    /\ jcurrent = NullId \/ \E i \in 1..Len(jprojects) : jprojects[i].id = jcurrent
    /\ jcurrent = NullId <=> jprojects = <<>>

\* The project that was created first has been deleted: the list begins with a project
\* that was named as the second one, and it is the current project.
C30_Witness ==
    /\ Len(jprojects) >= 1
    /\ jprojects[1].name = "Pattern 2"
    /\ jcurrent = jprojects[1].id

====
